---- MODULE Spec2Model ----
(***************************************************************************)
(* Virtualized text editor: the paragraph chunker, the page window of      *)
(* useVirtualization with its programmatic jumps, the fixed-height virtual *)
(* items of useVirtualScroll and the edit routing of OptimizedEditor.      *)
(***************************************************************************)
EXTENDS Integers, Sequences, FiniteSets, TLC

VARIABLES
    \* paragraphChunker.ts: one call of chunkTextByParagraphs
    text,           \* the input string, a sequence of one-character strings
    maxOpt,         \* options.maxWordsPerPage (0: absent)
    minOpt,         \* options.minWordsPerPage (0: absent)
    chunks,         \* the returned ParagraphChunk[]
    chunkerPc,      \* "input" before the call, "done" after it
    \* useVirtualization.ts inside VirtualizedEditor inside Editor
    totalPages,     \* chunks.length
    bufferSize,     \* the bufferSize prop
    currentPage,    \* the hook's currentPage state
    scrollBehavior, \* container.style.scrollBehavior ("" until first set)
    timers,         \* pending setTimeout callbacks, in creation order
    scrollLog,      \* the targets of the assignments to container.scrollTop
    callLog,        \* the scrollToChunk calls made so far
    audioChunk,     \* useAudioSync's currentChunkIndex (-1: none)
    editorPage,     \* Editor's own currentPage state (sidebar)
    lastInput,      \* the most recent external navigation event
    \* useVirtualScroll.ts inside OptimizedEditor.tsx
    editorChunks,   \* chunks.length of OptimizedEditor
    containerHeight,\* CONTAINER_HEIGHT
    scrollTop,      \* the hook's scrollTop state
    isScrolling,    \* the hook's isScrolling state
    rafPending,     \* the scrollTop the pending frame callback holds (-1: none)
    scrollEndPending,\* the 150 ms scroll-end timeout is pending
    enterTimers,    \* pending 10 ms callbacks of Enter keydowns, oldest first
    editLog,        \* the input events and Enter callbacks handled so far
    itemsMemo,      \* the value the virtualItems memo holds
    nodeText,       \* the text of the node of each chunk (0: as rendered)
    scrollToTrigger,\* Editor's scrollToTrigger state, as a chunk (-1: unset)
    \* useVirtualization.ts: the observer effect, and VirtualizedEditor's
    \* external page control
    externalPage,   \* the currentPage prop (-1: not supplied)
    observed,       \* the pages whose nodes the IntersectionObserver observes
    lastIntersectingPage, \* the effect's lastIntersectingPage
    tornDown,       \* the cleanup of the observer effect has run
    lastCallback,   \* what the latest intersection callback saw and chose
    \* part_007: one run of the sort-based intersection callback
    sortBatch,      \* the entries handed to the callback
    sortCurrent,    \* currentPage of that hook
    sortPc,         \* "input" before the callback, "done" after it
    \* server/storage.ts: MemStorage
    documents,      \* the keys of the documents map
    documentChunks, \* the values of the documentChunks map, in insertion order
    chunksCreated,  \* how many chunks createDocumentChunk has made
    rangeQuery,     \* the latest getDocumentChunkRange call, not yet outdated
    rangeResult,    \* what that call returned
    \* useVirtualScroll.ts: handleScroll with its pending callbacks
    frames,         \* the pending requestAnimationFrame callbacks, in order
    timeouts,       \* the pending scroll-end timeouts, in order
    appliedTop,     \* the scrollTop state of the hook
    scrollingFlag,  \* the isScrolling state of the hook
    hookMounted,    \* the component that uses the hook is mounted
    lastCall,       \* the latest handleScroll call
    lastFrame,      \* the latest frame callback that ran
    sinceApplied,   \* ms since the latest frame callback ran, capped
    lastProgress,   \* the latest scroll event and the progress it reported
    \* server/routes.ts searchInDemoDocument and pages/editor.tsx demoChunks
    demoDocumentId, \* the document id both sides chunk the text under
    searchQuery,    \* the query of the latest demo search ("": none yet)
    serverChunks,   \* the chunks the server's search ran over
    searchHits,     \* the chunkIndex values that search returned
    demoChunks,     \* the client's demoChunks
    demoPc,         \* which of the two sides has run
    \* workers/searchWorker.ts: the worker's index and its latest answer
    wordMap,        \* searchIndex.wordMap: word -> encoded positions
    chunkWords,     \* searchIndex.chunkWords: chunk index -> words
    indexedChunks,  \* the chunks of the latest index message
    workerResults,  \* the latest message the worker posted
    indexRuns       \* how many index messages the worker has received

chunkerVars == <<text, maxOpt, minOpt, chunks, chunkerPc>>

navVars == <<totalPages, bufferSize, currentPage, scrollBehavior, timers,
             scrollLog, callLog, audioChunk, editorPage, lastInput>>

editorVars == <<editorChunks, containerHeight, scrollTop, isScrolling,
                rafPending, scrollEndPending, enterTimers, editLog,
                itemsMemo, nodeText, scrollToTrigger>>

trackerVars == <<externalPage, observed, lastIntersectingPage, tornDown,
                 lastCallback>>

sortVars == <<sortBatch, sortCurrent, sortPc>>

storageVars == <<documents, documentChunks, chunksCreated, rangeQuery,
                 rangeResult>>

frameVars == <<frames, timeouts, appliedTop, scrollingFlag, hookMounted,
               lastCall, lastFrame, sinceApplied, lastProgress>>

demoVars == <<demoDocumentId, searchQuery, serverChunks, searchHits, demoChunks,
              demoPc>>

workerVars == <<wordMap, chunkWords, indexedChunks, workerResults,
                indexRuns>>

vars == <<chunkerVars, navVars, editorVars, trackerVars, sortVars,
          storageVars, frameVars, demoVars, workerVars>>

(***************************************************************************)
(* Bounds of the model.                                                    *)
(***************************************************************************)
MaxLines == 4
MaxOpt == 3
MaxChunks == 4
MaxBuffer == 2
MaxCalls == 2
MaxEditorChunks == 8
MaxEdits == 2
MaxText == 1
ScrollStep == 900

(***************************************************************************)
(* Generic helpers.                                                        *)
(***************************************************************************)
Abs(x) == IF x < 0 THEN 0 - x ELSE x

Max(a, b) == IF a >= b THEN a ELSE b
Min(a, b) == IF a <= b THEN a ELSE b

SetMax(S) == CHOOSE x \in S : \A y \in S : y <= x

RECURSIVE Flatten(_)
Flatten(ss) == IF ss = <<>> THEN <<>> ELSE Head(ss) \o Flatten(Tail(ss))

RECURSIVE SumSeq(_)
SumSeq(s) == IF s = <<>> THEN 0 ELSE Head(s) + SumSeq(Tail(s))

(***************************************************************************)
(* paragraphChunker.ts                                                     *)
(***************************************************************************)
NL == "\n"

\* \s of the regular expressions, over the alphabet of the model
IsSpace(c) == c \in {" ", NL}

\* the lines a text of the model is made of: empty, blank, one word, two
\* words behind a space, three words with a double space and a trailing one
LineShapes ==
    { <<>>,
      <<" ">>,
      <<"a">>,
      <<" ", "b", " ", "c">>,
      <<"d", " ", " ", "e", " ", "f", " ">> }

RECURSIVE JoinWith(_, _)
JoinWith(parts, sep) ==
    IF parts = <<>> THEN <<>>
    ELSE IF Len(parts) = 1 THEN Head(parts)
    ELSE Head(parts) \o sep \o JoinWith(Tail(parts), sep)

Texts ==
    { JoinWith(ls, <<NL>>) :
        ls \in UNION { [1..n -> LineShapes] : n \in 0..MaxLines } }

\* estimateWordsPerPage with no layout option set:
\* floor(floor(979.2 / 16.8245) * 13 * 0.85) = floor(58 * 11.05)
estimateWordsPerPage == (58 * 1105) \div 100

maxWordsPerPage(maxO) == IF maxO # 0 THEN maxO ELSE estimateWordsPerPage

minWordsPerPage(maxO, minO) ==
    IF minO # 0 THEN minO ELSE (maxWordsPerPage(maxO) * 3) \div 10

\* the end of the whitespace run that starts at i (i - 1 when there is none)
RECURSIVE WsRunEnd(_, _)
WsRunEnd(s, i) ==
    IF i <= Len(s) /\ IsSpace(s[i]) THEN WsRunEnd(s, i + 1) ELSE i - 1

\* s[i] is a newline: the last index of the separator /\n\s*\n|\n/ matches at i
SeparatorEnd(s, i) ==
    LET r  == WsRunEnd(s, i + 1)
        js == { j \in (i + 1)..r : s[j] = NL }
    IN  IF js # {} THEN SetMax(js) ELSE i

\* text.split(/\n\s*\n|\n/)
RECURSIVE SplitFrom(_, _, _)
SplitFrom(s, i, piece) ==
    IF i > Len(s) THEN <<piece>>
    ELSE IF s[i] = NL
         THEN <<piece>> \o SplitFrom(s, SeparatorEnd(s, i) + 1, <<>>)
         ELSE SplitFrom(s, i + 1, Append(piece, s[i]))

SplitText(s) == SplitFrom(s, 1, <<>>)

RECURSIVE TrimLeft(_)
TrimLeft(p) ==
    IF p # <<>> /\ IsSpace(Head(p)) THEN TrimLeft(Tail(p)) ELSE p

RECURSIVE TrimRight(_)
TrimRight(p) ==
    IF p # <<>> /\ IsSpace(p[Len(p)])
    THEN TrimRight(SubSeq(p, 1, Len(p) - 1)) ELSE p

Trim(p) == TrimRight(TrimLeft(p))

\* SplitParagraphs without the filter of the empty paragraphs
SplitParagraphs_NoFilter(s) ==
    LET pieces == SplitText(s)
    IN  [k \in 1..Len(pieces) |-> Trim(pieces[k])]

\* text.split(...).map(p => p.trim()).filter(p => p.length > 0)
SplitParagraphs(s) ==
    LET pieces  == SplitText(s)
        trimmed == [k \in 1..Len(pieces) |-> Trim(pieces[k])]
    IN  SelectSeq(trimmed, LAMBDA p : Len(p) > 0)

\* the page limits of the server's chunker and of the client's demo call
ServerMaxWordsPerPage == 600
ServerMinWordsPerPage == 150
DemoMaxWordsPerPage == 600
DemoMinWordsPerPage == 150

\* a piece of a text that stands for k one-letter words with one blank
\* between each two, "x x ... x": a string of 2k - 1 characters that neither
\* starts nor ends with whitespace and holds no newline
WordRun(k) == "words:" \o ToString(k)

\* the runs the texts of the model use: they bring a chunk just below, to
\* and just above the two page limits
RunLengths ==
    { ServerMinWordsPerPage - 1, ServerMinWordsPerPage,
      ServerMaxWordsPerPage - ServerMinWordsPerPage,
      ServerMaxWordsPerPage + 1 }

\* the words of a piece that is not whitespace
WordsIn(c) ==
    IF \E k \in RunLengths : c = WordRun(k)
    THEN CHOOSE k \in RunLengths : c = WordRun(k)
    ELSE 1

\* paragraph.split(/\s+/).filter(w => w.length > 0).length: the first word
\* of a piece continues the word before it when no whitespace is between
RECURSIVE WordCountFrom(_, _, _)
WordCountFrom(p, i, inWord) ==
    IF i > Len(p) THEN 0
    ELSE IF IsSpace(p[i]) THEN WordCountFrom(p, i + 1, FALSE)
    ELSE (WordsIn(p[i]) - (IF inWord THEN 1 ELSE 0))
             + WordCountFrom(p, i + 1, TRUE)

WordCount(p) == WordCountFrom(p, 1, FALSE)

\* NewChunk with the end index one too far
NewChunk_EndOffByOne(st) ==
    [ chunkIndex     |-> Len(st.chunks),
      content        |-> JoinWith(st.currentChunk, <<NL, NL>>),
      wordCount      |-> st.currentWordCount,
      startWordIndex |-> st.chunkStartWordIndex,
      endWordIndex   |-> st.totalWordIndex,
      paragraphs     |-> st.currentChunk ]

NewChunk(st) ==
    [ chunkIndex     |-> Len(st.chunks),
      content        |-> JoinWith(st.currentChunk, <<NL, NL>>),
      wordCount      |-> st.currentWordCount,
      startWordIndex |-> st.chunkStartWordIndex,
      endWordIndex   |-> st.totalWordIndex - 1,
      paragraphs     |-> st.currentChunk ]

\* ClosesChunk that closes only before the final paragraph
ClosesChunk_OnlyOnLast(cwc, minW, i, n) == i = n - 1

\* ClosesChunk without the minimum: every overflow closes the chunk
ClosesChunk_IgnoreMin(cwc, minW, i, n) == TRUE

\* the test that closes the current chunk before paragraph i (0-based)
ClosesChunk(cwc, minW, i, n) == cwc >= minW \/ i = n - 1

\* AddParagraph that counts the words and loses the paragraph
AddParagraph_CountOnly(st, paragraph, pwc) ==
    [st EXCEPT !.currentWordCount = @ + pwc]

\* the paragraph joins the current chunk
AddParagraph(st, paragraph, pwc) ==
    [st EXCEPT !.currentChunk = Append(@, paragraph),
               !.currentWordCount = @ + pwc]

\* LoopBody that never closes a chunk short of the last paragraph
LoopBody_NeverClose(st, paragraphs, i, maxW, minW) ==
    LET paragraph == paragraphs[i + 1]
        pwc       == WordCount(paragraph)
        st1 ==
            IF st.currentWordCount > 0 /\ st.currentWordCount + pwc > maxW
               /\ i = Len(paragraphs) - 1
            THEN [st EXCEPT !.chunks = Append(@, NewChunk(st)),
                            !.currentChunk = <<paragraph>>,
                            !.currentWordCount = pwc,
                            !.chunkStartWordIndex = st.totalWordIndex]
            ELSE AddParagraph(st, paragraph, pwc)
    IN  [st1 EXCEPT !.totalWordIndex = @ + pwc]

\* one iteration of the for loop, paragraph i (0-based)
LoopBody(st, paragraphs, i, maxW, minW) ==
    LET paragraph == paragraphs[i + 1]
        pwc       == WordCount(paragraph)
        st1 ==
            IF st.currentWordCount > 0 /\ st.currentWordCount + pwc > maxW
            THEN IF ClosesChunk(st.currentWordCount, minW, i, Len(paragraphs))
                 THEN [st EXCEPT !.chunks = Append(@, NewChunk(st)),
                                 !.currentChunk = <<paragraph>>,
                                 !.currentWordCount = pwc,
                                 !.chunkStartWordIndex = st.totalWordIndex]
                 ELSE AddParagraph(st, paragraph, pwc)
            ELSE AddParagraph(st, paragraph, pwc)
    IN  [st1 EXCEPT !.totalWordIndex = @ + pwc]

RECURSIVE ChunkLoop(_, _, _, _, _)
ChunkLoop(st, paragraphs, i, maxW, minW) ==
    IF i >= Len(paragraphs) THEN st
    ELSE ChunkLoop(LoopBody(st, paragraphs, i, maxW, minW),
                   paragraphs, i + 1, maxW, minW)

chunkTextByParagraphs(t, maxO, minO) ==
    LET maxW       == maxWordsPerPage(maxO)
        minW       == minWordsPerPage(maxO, minO)
        paragraphs == SplitParagraphs(t)
        st0 == [ chunks |-> <<>>, currentChunk |-> <<>>,
                 currentWordCount |-> 0, totalWordIndex |-> 0,
                 chunkStartWordIndex |-> 0 ]
        st  == ChunkLoop(st0, paragraphs, 0, maxW, minW)
    IN  IF Len(paragraphs) = 0 THEN <<>>
        ELSE IF Len(st.currentChunk) > 0
             THEN Append(st.chunks, NewChunk(st))
             ELSE st.chunks

InitChunkerInputs ==
    /\ text \in Texts
    /\ maxOpt \in 0..MaxOpt
    /\ minOpt \in 0..MaxOpt
    /\ chunks = <<>>
    /\ chunkerPc = "input"

\* the caller chunks the text
Chunk ==
    /\ chunkerPc = "input"
    /\ chunks' = chunkTextByParagraphs(text, maxOpt, minOpt)
    /\ chunkerPc' = "done"
    /\ UNCHANGED <<text, maxOpt, minOpt>>
    /\ UNCHANGED <<navVars, editorVars, trackerVars, sortVars, storageVars, frameVars, demoVars,
                   workerVars>>

IdleChunker ==
    /\ text = <<>>
    /\ maxOpt = 0
    /\ minOpt = 0
    /\ chunks = <<>>
    /\ chunkerPc = "idle"

(***************************************************************************)
(* useVirtualization.ts: the page window and the programmatic jumps, as    *)
(* VirtualizedEditor and Editor drive them.                                *)
(***************************************************************************)
SettleDelay == 50
RestoreDelay == 100

\* time advances in steps of the shortest delay
TickMs == SettleDelay

\* Array.prototype.slice(start, end) on an array of n elements, as the
\* 0-based indices it returns: a negative bound counts from the end
SliceBound(n, b) == IF b < 0 THEN Max(n + b, 0) ELSE Min(b, n)

Slice(n, start, end) ==
    LET from == SliceBound(n, start)
        to   == SliceBound(n, end)
    IN  [k \in 1..Max(to - from, 0) |-> from + k - 1]

\* visibleChunks with the window one chunk short at its end
visibleChunks_EndShort(n, page, buffer) ==
    Slice(n, Max(0, page - buffer), Min(n, page + buffer))

\* the visibleChunks memo, as the indices of the chunks it holds
visibleChunks(n, page, buffer) ==
    Slice(n, Max(0, page - buffer), Min(n, page + buffer + 1))

SeqRange(sq) == { sq[k] : k \in 1..Len(sq) }

\* the chunkIndex values of the rendered DocumentPage nodes
MountedPages == SeqRange(visibleChunks(totalPages, currentPage, bufferSize))

NavState ==
    [ currentPage |-> currentPage, scrollBehavior |-> scrollBehavior,
      timers |-> timers, callLog |-> callLog ]

HasPendingSettle(ts) == \E k \in 1..Len(ts) : ts[k].kind = "settle"

\* scrollToChunk(chunkIndex) up to its setTimeout
scrollToChunk(ns, chunkIndex, source) ==
    [ currentPage    |-> chunkIndex,
      scrollBehavior |-> "auto",
      timers         |-> Append(ns.timers,
                            [kind |-> "settle", left |-> SettleDelay,
                             target |-> chunkIndex]),
      callLog        |-> Append(ns.callLog,
                            [target |-> chunkIndex, source |-> source,
                             overlaps |-> HasPendingSettle(ns.timers)]) ]

\* VirtualizedEditor's "auto-scroll to current audio position" effect, run
\* after a render that changed currentChunkIndex or the effective page
AudioEffect(ns, currentChunkIndex) ==
    IF currentChunkIndex # -1 /\ currentChunkIndex # ns.currentPage
    THEN scrollToChunk(ns, currentChunkIndex, "audio")
    ELSE ns

\* VirtualizedEditor's "handle external page changes" effect, run after a
\* render that changed the currentPage prop or the internal page
ExternalPageEffect(ns, externalCurrentPage) ==
    IF externalCurrentPage # -1 /\ externalCurrentPage # ns.currentPage
    THEN scrollToChunk(ns, externalCurrentPage, "external")
    ELSE ns

SetNavState(ns) ==
    /\ currentPage' = ns.currentPage
    /\ scrollBehavior' = ns.scrollBehavior
    /\ timers' = ns.timers
    /\ callLog' = ns.callLog

\* every page, the first index past the end and a negative index
JumpTargets == {0 - 2} \cup (0..totalPages)

AudioChunks == {-1} \cup (0..(totalPages - 1))

InitNav ==
    /\ totalPages \in 1..MaxChunks
    /\ bufferSize \in 0..MaxBuffer
    /\ currentPage = 0
    /\ scrollBehavior = ""
    /\ timers = <<>>
    /\ scrollLog = <<>>
    /\ callLog = <<>>
    /\ audioChunk = -1
    /\ editorPage = 0
    /\ lastInput = [kind |-> "none", target |-> -1]

\* Editor.handlePageClick / handleSearchResultClick: the 'scrollToChunk'
\* event reaches VirtualizedEditor's listener, then the effects run
UserJump(k) ==
    /\ Len(callLog) < MaxCalls
    /\ editorPage' = k
    /\ SetNavState(AudioEffect(scrollToChunk(NavState, k, "user"), audioChunk))
    /\ lastInput' = [kind |-> "jump", target |-> k]
    /\ UNCHANGED <<totalPages, bufferSize, scrollLog, audioChunk>>
    /\ UNCHANGED <<chunkerVars, editorVars, trackerVars, sortVars,
                   storageVars, frameVars, demoVars,
                   workerVars>>

\* playback moves to another chunk: useAudioSync reports a new
\* currentChunkIndex and the auto-scroll effect runs
AudioMove(c) ==
    /\ Len(callLog) < MaxCalls
    /\ c # audioChunk
    /\ audioChunk' = c
    /\ SetNavState(AudioEffect(NavState, c))
    /\ lastInput' = [kind |-> "audio", target |-> c]
    /\ UNCHANGED <<totalPages, bufferSize, scrollLog, editorPage>>
    /\ UNCHANGED <<chunkerVars, editorVars, trackerVars, sortVars,
                   storageVars, frameVars, demoVars,
                   workerVars>>

RemoveAt(sq, i) == SubSeq(sq, 1, i - 1) \o SubSeq(sq, i + 1, Len(sq))

\* timer i is due and no earlier timer of the same delay is
Fires(i) ==
    /\ timers[i].left <= 0
    /\ \A j \in 1..(i - 1) :
           timers[j].kind = timers[i].kind => timers[j].left > 0

\* the settle callback finding a node whatever is rendered
TargetFound_Always(chunkIndex) == TRUE

\* container.querySelector(`[data-page="${chunkIndex + 1}"]`) finds a node
TargetFound(chunkIndex) == chunkIndex \in MountedPages

\* the 50 ms callback of scrollToChunk
SettleTimer(i) ==
    /\ timers[i].kind = "settle"
    /\ Fires(i)
    /\ IF TargetFound(timers[i].target)
       THEN /\ scrollLog' = Append(scrollLog, timers[i].target)
            /\ timers' = Append(RemoveAt(timers, i),
                           [kind |-> "restore", left |-> RestoreDelay,
                            target |-> timers[i].target])
       ELSE /\ scrollLog' = scrollLog
            /\ timers' = RemoveAt(timers, i)
    /\ UNCHANGED <<totalPages, bufferSize, currentPage, scrollBehavior,
                   callLog, audioChunk, editorPage, lastInput>>
    /\ UNCHANGED <<chunkerVars, editorVars, trackerVars, sortVars,
                   storageVars, frameVars, demoVars,
                   workerVars>>

\* the 100 ms callback that restores smooth scrolling
RestoreTimer(i) ==
    /\ timers[i].kind = "restore"
    /\ Fires(i)
    /\ scrollBehavior' = "smooth"
    /\ timers' = RemoveAt(timers, i)
    /\ UNCHANGED <<totalPages, bufferSize, currentPage, scrollLog,
                   callLog, audioChunk, editorPage, lastInput>>
    /\ UNCHANGED <<chunkerVars, editorVars, trackerVars, sortVars,
                   storageVars, frameVars, demoVars,
                   workerVars>>

\* the intersection callbacks before and after a passage of time do not
\* belong to one burst
EndBurst(cb) == IF cb.ran THEN [cb EXCEPT !.burstWrites = 0] ELSE cb

\* time passes while no timer is due
Tick ==
    /\ timers # <<>>
    /\ \A k \in 1..Len(timers) : timers[k].left > 0
    /\ timers' = [k \in 1..Len(timers) |->
                    [timers[k] EXCEPT !.left = @ - TickMs]]
    /\ lastCallback' = EndBurst(lastCallback)
    /\ UNCHANGED <<totalPages, bufferSize, currentPage, scrollBehavior,
                   scrollLog, callLog, audioChunk, editorPage, lastInput>>
    /\ UNCHANGED <<externalPage, observed, lastIntersectingPage, tornDown>>
    /\ UNCHANGED <<chunkerVars, editorVars, sortVars, storageVars, frameVars, demoVars,
                   workerVars>>

NextNav ==
    \/ \E k \in JumpTargets : UserJump(k)
    \/ \E c \in AudioChunks : AudioMove(c)
    \/ \E i \in 1..Len(timers) : SettleTimer(i)
    \/ \E i \in 1..Len(timers) : RestoreTimer(i)
    \/ Tick


(***************************************************************************)
(* useVirtualization.ts: the observer effect (IntersectionObserver,        *)
(* MutationObserver, cleanup) under VirtualizedEditor, with and without    *)
(* the page control of DocumentManager.                                    *)
(***************************************************************************)
InitialObserveDelay == 100
ReobserveDelay == 50
RatioThreshold == 10
PageMinHeight == 384
MaxTimers == 3
MaxTrackedPages == 3
MaxTrackedBuffer == 1
MaxTrackedJumps == 1

\* boundingClientRect.top of an entry, measured from the top edge of the
\* container, and isIntersecting with the intersectionRatio in percent
EntryTops == {0 - 400, 300, 700}

EntryShapes ==
    { [isIntersecting |-> FALSE, ratio |-> 0],
      [isIntersecting |-> TRUE, ratio |-> 5],
      [isIntersecting |-> TRUE, ratio |-> RatioThreshold] }

Entries(pages) ==
    { [page |-> p, top |-> t, isIntersecting |-> sh.isIntersecting,
       ratio |-> sh.ratio] : p \in pages, t \in EntryTops, sh \in EntryShapes }

\* the batches of one callback: one or two entries in document order, a
\* later page at least its predecessors' min-h-96 further down, and below
\* the container top when a page before it reaches into the root area
Batches(pages) ==
    { <<e>> : e \in Entries(pages) } \cup
    { b \in { <<e1, e2>> : e1 \in Entries(pages), e2 \in Entries(pages) } :
          /\ b[2].page > b[1].page
          /\ b[2].top - b[1].top >= (b[2].page - b[1].page) * PageMinHeight
          /\ b[1].isIntersecting => b[2].top > 0 }

\* the test of the forEach body with the ratio threshold left out
IsCandidate_AnyRatio(entry) == entry.isIntersecting

\* the test of the forEach body of the intersection callback
IsCandidate(entry) ==
    entry.isIntersecting /\ entry.ratio >= RatioThreshold

\* the forEach of the intersection callback from entry k on: the index of
\* the topmost candidate so far (0: none) and its top
RECURSIVE TopMostFrom(_, _, _, _)
TopMostFrom(entries, k, best, bestTop) ==
    IF k > Len(entries) THEN best
    ELSE IF /\ IsCandidate(entries[k])
            /\ (best = 0 \/ entries[k].top < bestTop)
         THEN TopMostFrom(entries, k + 1, k, entries[k].top)
         ELSE TopMostFrom(entries, k + 1, best, bestTop)

\* the page index the callback derives from data-page (-1: no candidate)
TopMostPage(entries) ==
    LET k == TopMostFrom(entries, 1, 0, 0)
    IN  IF k = 0 THEN 0 - 1 ELSE entries[k].page

PagesAround(page) == SeqRange(visibleChunks(totalPages, page, bufferSize))

ObserveCount(ts) ==
    Cardinality({ k \in 1..Len(ts) : ts[k].kind = "observe" })

ObserveTimerOf(delay) == [kind |-> "observe", left |-> delay, target |-> 0 - 1]

\* a render that changed the page nodes wakes the MutationObserver: it
\* disconnects the IntersectionObserver and schedules observePages
MutationCallback(ts, pagesBefore, pagesAfter) ==
    IF pagesBefore # pagesAfter
    THEN Append(ts, ObserveTimerOf(ReobserveDelay))
    ELSE ts

\* the renders that follow a change of the internal page or of the
\* currentPage prop: the page nodes are replaced, then the effects of
\* VirtualizedEditor run, and a jump they make replaces the nodes again
RenderAndEffects(ns, pagesBefore, externalCurrentPage) ==
    LET first   == [ns EXCEPT !.timers =
                       MutationCallback(ns.timers, pagesBefore,
                                        PagesAround(ns.currentPage))]
        jumped  == AudioEffect(ExternalPageEffect(first, externalCurrentPage),
                               audioChunk)
    IN  [jumped EXCEPT !.timers =
            MutationCallback(jumped.timers, PagesAround(first.currentPage),
                             PagesAround(jumped.currentPage))]

InitTracker ==
    /\ totalPages \in 1..MaxTrackedPages
    /\ bufferSize \in 0..MaxTrackedBuffer
    /\ currentPage = 0
    /\ scrollBehavior = ""
    /\ timers = <<ObserveTimerOf(InitialObserveDelay)>>
    /\ scrollLog = <<>>
    /\ callLog = <<>>
    /\ audioChunk = -1
    /\ editorPage = 0
    /\ lastInput = [kind |-> "none", target |-> -1]
    /\ externalPage \in {0 - 1, 0}
    /\ observed = {}
    /\ lastIntersectingPage = -1
    /\ tornDown = FALSE
    /\ lastCallback = [ran |-> FALSE]

\* observePages, run by the 100 ms timer of the effect or by a 50 ms timer
\* of the MutationObserver: every page node in the container is observed
ObserveTimer(i) ==
    /\ timers[i].kind = "observe"
    /\ Fires(i)
    /\ observed' = observed \cup MountedPages
    /\ timers' = RemoveAt(timers, i)
    /\ UNCHANGED <<totalPages, bufferSize, currentPage, scrollBehavior,
                   scrollLog, callLog, audioChunk, editorPage, lastInput>>
    /\ UNCHANGED <<externalPage, lastIntersectingPage, tornDown,
                   lastCallback>>
    /\ UNCHANGED <<chunkerVars, editorVars, sortVars, storageVars, frameVars, demoVars,
                   workerVars>>

\* the IntersectionObserver callback with a batch of entries for observed
\* page nodes, and the renders its setCurrentPage causes
IntersectionCallback(batch) ==
    /\ ~tornDown
    /\ LET pageIndex == TopMostPage(batch)
           sets      == pageIndex # -1 /\ pageIndex # lastIntersectingPage
           ns        == IF sets
                        THEN RenderAndEffects(
                                 [NavState EXCEPT !.currentPage = pageIndex],
                                 MountedPages, externalPage)
                        ELSE NavState
           qualifies == { j \in 1..Len(batch) :
                            /\ batch[j].isIntersecting
                            /\ batch[j].ratio >= RatioThreshold }
       IN  /\ Len(ns.timers) <= MaxTimers
           /\ Len(ns.callLog) <= MaxTrackedJumps
           /\ SetNavState(ns)
           /\ lastIntersectingPage' =
                  IF sets THEN pageIndex ELSE lastIntersectingPage
           /\ observed' =
                  IF ObserveCount(ns.timers) > ObserveCount(timers)
                  THEN {} ELSE observed
           /\ lastCallback' =
                  [ ran |-> TRUE,
                    selected |-> IF sets THEN pageIndex ELSE 0 - 1,
                    chosen |-> pageIndex,
                    qualifying |-> { batch[j].page : j \in qualifies },
                    nearest |->
                        { batch[j].page : j \in
                            { i \in qualifies : \A h \in qualifies :
                                Abs(batch[i].top) <= Abs(batch[h].top) } },
                    jumps |-> Len(ns.callLog) - Len(callLog),
                    pageAfter |-> ns.currentPage,
                    burstWrites |->
                        Min(2, (IF lastCallback.ran
                                THEN lastCallback.burstWrites ELSE 0)
                               + (IF sets THEN 1 ELSE 0)) ]
    /\ UNCHANGED <<totalPages, bufferSize, scrollLog, audioChunk, editorPage,
                   lastInput, externalPage, tornDown>>
    /\ UNCHANGED <<chunkerVars, editorVars, sortVars, storageVars, frameVars, demoVars,
                   workerVars>>

\* a page picked in the sidebar: Editor dispatches the 'scrollToChunk'
\* event, DocumentManager sets the currentPage prop instead
PageJump(k) ==
    /\ ~tornDown
    /\ Len(callLog) < MaxTrackedJumps
    /\ LET ns == IF externalPage = -1
                 THEN RenderAndEffects(scrollToChunk(NavState, k, "user"),
                                       MountedPages, externalPage)
                 ELSE RenderAndEffects(NavState, MountedPages, k)
       IN  /\ Len(ns.timers) <= MaxTimers
           /\ SetNavState(ns)
           /\ observed' =
                  IF ObserveCount(ns.timers) > ObserveCount(timers)
                  THEN {} ELSE observed
    /\ IF externalPage = -1
       THEN editorPage' = k /\ externalPage' = externalPage
       ELSE editorPage' = editorPage /\ externalPage' = k
    /\ UNCHANGED <<totalPages, bufferSize, scrollLog, audioChunk, lastInput,
                   lastIntersectingPage, tornDown, lastCallback>>
    /\ UNCHANGED <<chunkerVars, editorVars, sortVars, storageVars, frameVars, demoVars,
                   workerVars>>

\* the chunks prop is replaced by an array of another length (the chunk
\* query of the page delivers new data): the window is recomputed from the
\* unchanged currentPage, the page nodes change, the effects run
ReplaceChunks(n) ==
    /\ ~tornDown
    /\ n # totalPages
    /\ totalPages' = n
    /\ LET pagesAfter == SeqRange(visibleChunks(n, currentPage, bufferSize))
           first == [NavState EXCEPT !.timers =
                        MutationCallback(timers, MountedPages, pagesAfter)]
           ns    == AudioEffect(ExternalPageEffect(first, externalPage),
                                audioChunk)
       IN  /\ Len(ns.timers) <= MaxTimers
           /\ Len(ns.callLog) <= MaxTrackedJumps
           /\ SetNavState(ns)
           /\ observed' =
                  IF ObserveCount(ns.timers) > ObserveCount(timers)
                  THEN {} ELSE observed
    /\ UNCHANGED <<bufferSize, scrollLog, audioChunk, editorPage, lastInput,
                   externalPage, lastIntersectingPage, tornDown,
                   lastCallback>>
    /\ UNCHANGED <<chunkerVars, editorVars, sortVars, storageVars, frameVars, demoVars,
                   workerVars>>

\* the component is unmounted: the cleanup of the observer effect
\* disconnects both observers; no timer is cleared
Teardown ==
    /\ ~tornDown
    /\ tornDown' = TRUE
    /\ observed' = {}
    /\ UNCHANGED <<externalPage, lastIntersectingPage, lastCallback>>
    /\ UNCHANGED navVars
    /\ UNCHANGED <<chunkerVars, editorVars, sortVars, storageVars, frameVars, demoVars,
                   workerVars>>

NextTracker ==
    \/ \E i \in 1..Len(timers) : ObserveTimer(i)
    \/ \E batch \in Batches(observed) : IntersectionCallback(batch)
    \/ \E k \in 0..(totalPages - 1) : PageJump(k)
    \/ \E n \in 1..MaxTrackedPages : ReplaceChunks(n)
    \/ Teardown
    \/ \E i \in 1..Len(timers) : SettleTimer(i)
    \/ \E i \in 1..Len(timers) : RestoreTimer(i)
    \/ Tick

\* VirtualizedEditor while the user only scrolls: the observer timers, the
\* intersection callbacks and the timers of the jumps the effects make
NextPassiveScroll ==
    \/ \E i \in 1..Len(timers) : ObserveTimer(i)
    \/ \E batch \in Batches(observed) : IntersectionCallback(batch)
    \/ \E i \in 1..Len(timers) : SettleTimer(i)
    \/ \E i \in 1..Len(timers) : RestoreTimer(i)
    \/ Tick

(***************************************************************************)
(* The sort-based intersection callback of useVirtualization (the hook     *)
(* version with distanceFromTop and a tolerance).                          *)
(***************************************************************************)
Tolerance == 50
MaxSortPages == 3
MaxBatch == 3

\* rect.top - containerRect.top of an entry
SortTops == {0 - 200, 0, 216, 250, 640}

\* isIntersecting and the intersectionRatio in percent
SortShapes ==
    { [isIntersecting |-> FALSE, ratio |-> 0],
      [isIntersecting |-> TRUE, ratio |-> 30],
      [isIntersecting |-> TRUE, ratio |-> 70] }

SortEntries ==
    { [page |-> p, top |-> t, isIntersecting |-> sh.isIntersecting,
       ratio |-> sh.ratio] :
          p \in 0..(MaxSortPages - 1), t \in SortTops, sh \in SortShapes }

\* entries of one batch are in document order, a later page at least the
\* min-h-96 of its predecessors further down
Follows(e1, e2) ==
    /\ e1.page < e2.page
    /\ e2.top - e1.top >= (e2.page - e1.page) * PageMinHeight

RECURSIVE BatchesOfLen(_)
BatchesOfLen(n) ==
    IF n = 1 THEN { <<e>> : e \in SortEntries }
    ELSE { bb \in { Append(b, e) : b \in BatchesOfLen(n - 1),
                                    e \in SortEntries } :
              Follows(bb[n - 1], bb[n]) }

SortBatches == UNION { BatchesOfLen(n) : n \in 1..MaxBatch }

\* .filter(isIntersecting).map(...).filter(pageIndex >= 0)
RECURSIVE IntersectingPages(_)
IntersectingPages(entries) ==
    IF entries = <<>> THEN <<>>
    ELSE LET e == Head(entries)
         IN  IF e.isIntersecting /\ e.page >= 0
             THEN <<[pageIndex |-> e.page,
                     distanceFromTop |-> Abs(e.top),
                     intersectionRatio |-> e.ratio]>>
                  \o IntersectingPages(Tail(entries))
             ELSE IntersectingPages(Tail(entries))

\* the comparator without the ratio branch
Compare_DistanceOnly(a, b) == a.distanceFromTop - b.distanceFromTop

\* the comparator passed to sort
Compare(a, b) ==
    IF Abs(a.distanceFromTop - b.distanceFromTop) < Tolerance
    THEN b.intersectionRatio - a.intersectionRatio
    ELSE a.distanceFromTop - b.distanceFromTop

Sign(x) == IF x < 0 THEN 0 - 1 ELSE IF x > 0 THEN 1 ELSE 0

\* a consistent comparator in the sense of Array.prototype.sort
ConsistentOn(c) ==
    \A i \in 1..Len(c) : \A j \in 1..Len(c) :
        /\ Sign(Compare(c[i], c[j])) = 0 - Sign(Compare(c[j], c[i]))
        /\ \A k \in 1..Len(c) :
              /\ (Compare(c[i], c[j]) < 0 /\ Compare(c[j], c[k]) < 0)
                    => Compare(c[i], c[k]) < 0
              /\ (Compare(c[i], c[j]) = 0 /\ Compare(c[j], c[k]) = 0)
                    => Compare(c[i], c[k]) = 0

IndexOrders(n) ==
    { f \in [1..n -> 1..n] : \A i \in 1..n : \E j \in 1..n : f[j] = i }

\* Array.prototype.sort: the stable order under a consistent comparator,
\* an implementation-defined order otherwise
SortResults(c) ==
    LET n      == Len(c)
        stable == { f \in IndexOrders(n) :
                      \A i \in 1..n : \A j \in 1..n :
                          i < j =>
                            \/ Compare(c[f[i]], c[f[j]]) < 0
                            \/ /\ Compare(c[f[i]], c[f[j]]) = 0
                               /\ f[i] < f[j] }
    IN  { [k \in 1..n |-> c[f[k]]] :
            f \in IF ConsistentOn(c) THEN stable ELSE IndexOrders(n) }

\* the pages the callback may pass on as newCurrentPage
NewCurrentPages(entries) ==
    { order[1].pageIndex :
        order \in { o \in SortResults(IntersectingPages(entries)) : o # <<>> } }

InitSortedCallback ==
    /\ sortBatch \in SortBatches
    /\ sortCurrent = 0
    /\ sortPc = "delivered"

\* the IntersectionObserver callback of the sort-based hook
SortedCallback ==
    /\ sortPc = "delivered"
    /\ \/ /\ NewCurrentPages(sortBatch) = {}
          /\ sortCurrent' = sortCurrent
       \/ \E newCurrentPage \in NewCurrentPages(sortBatch) :
             sortCurrent' = newCurrentPage
    /\ sortPc' = "handled"
    /\ UNCHANGED sortBatch
    /\ UNCHANGED <<chunkerVars, navVars, editorVars, trackerVars,
                   storageVars, frameVars, demoVars,
                   workerVars>>

\* the observer delivers the next batch
DeliverBatch(b) ==
    /\ sortPc = "handled"
    /\ sortBatch' = b
    /\ sortPc' = "delivered"
    /\ UNCHANGED sortCurrent
    /\ UNCHANGED <<chunkerVars, navVars, editorVars, trackerVars,
                   storageVars, frameVars, demoVars,
                   workerVars>>

NextSortedCallback ==
    \/ SortedCallback
    \/ \E b \in SortBatches : DeliverBatch(b)

(***************************************************************************)
(* useVirtualScroll.ts and OptimizedEditor.tsx: the virtual items and the  *)
(* edits of the rendered chunks.                                           *)
(***************************************************************************)
CHUNK_HEIGHT == 400
Overscan == 5
ToolbarHeight == 100

\* CONTAINER_HEIGHT = window.innerHeight - 100, for two window heights
ContainerHeights == {400 - ToolbarHeight, 800 - ToolbarHeight}

\* Math.floor(a / b) and Math.ceil(a / b) for b > 0
FloorDiv(a, b) == a \div b
CeilDiv(a, b) == 0 - ((0 - a) \div b)

\* a visibleRange whose overscan moves the start into the viewport
visibleRange_OverscanAdded(top, itemHeight, height, overscan, n) ==
    [ startIndex |-> Max(0, FloorDiv(top, itemHeight) + overscan),
      endIndex   |-> Min(n - 1, CeilDiv(top + height, itemHeight) + overscan) ]

\* the visibleRange memo
visibleRange(top, itemHeight, height, overscan, n) ==
    [ startIndex |-> Max(0, FloorDiv(top, itemHeight) - overscan),
      endIndex   |-> Min(n - 1, CeilDiv(top + height, itemHeight) + overscan) ]

\* VirtualItem positioned by its place in the window, not by its index
VirtualItem_ByPlace(i, itemHeight, startIndex) ==
    [ chunk |-> i, index |-> i, offset |-> (i - startIndex) * itemHeight,
      height |-> itemHeight, isVisible |-> TRUE, isPrefetched |-> FALSE ]

\* the VirtualItem of index i; chunk is the position of chunks[i]
VirtualItem(i, itemHeight, startIndex) ==
    [ chunk |-> i, index |-> i, offset |-> i * itemHeight,
      height |-> itemHeight, isVisible |-> TRUE, isPrefetched |-> FALSE ]

\* the virtualItems memo: the loop from startIndex to endIndex, skipping
\* indices at or past chunks.length (processedIndices never holds i twice)
virtualItems(range, n, itemHeight) ==
    LET all == [k \in 1..Max(range.endIndex - range.startIndex + 1, 0) |->
                   range.startIndex + k - 1]
        kept == SelectSeq(all, LAMBDA i : ~(i >= n))
    IN  [k \in 1..Len(kept) |->
            VirtualItem(kept[k], itemHeight, range.startIndex)]

ItemsAt(n, top, height) ==
    virtualItems(visibleRange(top, CHUNK_HEIGHT, height, Overscan, n),
                 n, CHUNK_HEIGHT)

\* the dependencies of the virtualItems memo that a scroll can change
MemoDeps(n, top, height) ==
    <<visibleRange(top, CHUNK_HEIGHT, height, Overscan, n), n, CHUNK_HEIGHT>>

\* a memo that is recomputed only when the chunk list changes
useMemoItems_RangeNotADependency(prev, n, prevTop, top, height) ==
    prev

\* useMemo for virtualItems: the held value is kept while the dependencies
\* are the same, and computed anew when one has changed
useMemoItems(prev, n, prevTop, top, height) ==
    IF MemoDeps(n, prevTop, height) = MemoDeps(n, top, height)
    THEN prev
    ELSE ItemsAt(n, top, height)

\* the items OptimizedEditor renders, one ChunkRenderer each
RenderedItems == itemsMemo

ItemIndices(items) == { items[k].index : k \in 1..Len(items) }

ItemOf(items, i) == CHOOSE it \in SeqRange(items) : it.index = i

\* the values container.scrollTop can take: the inner div is totalHeight
\* high and at least 100vh
ScrollPositions ==
    LET scrollHeight == Max(editorChunks * CHUNK_HEIGHT,
                            containerHeight + ToolbarHeight)
    IN  { k * ScrollStep :
            k \in 0..((scrollHeight - containerHeight) \div ScrollStep) }

\* unmounting a ChunkRenderer detaches its contentRef: the pending Enter
\* callbacks of nodes that are no longer rendered see contentRef.current null
DetachUnmounted(ts, items) ==
    [k \in 1..Len(ts) |->
        [ts[k] EXCEPT !.attached = @ /\ ts[k].index \in ItemIndices(items)]]

\* a ChunkRenderer that is mounted again renders chunk.content afresh: the
\* text typed into a node is lost with the node
ResetUnmounted(txt, items) ==
    [i \in DOMAIN txt |-> IF i \in ItemIndices(items) THEN txt[i] ELSE 0]

\* the texts an edit can leave in a node
NodeTexts == 0..MaxText

InitEditorInputs ==
    /\ editorChunks \in 0..MaxEditorChunks
    /\ containerHeight \in ContainerHeights
    /\ scrollTop = 0
    /\ isScrolling = FALSE
    /\ rafPending = -1
    /\ scrollEndPending = FALSE
    /\ enterTimers = <<>>
    /\ editLog = <<>>
    /\ itemsMemo = ItemsAt(editorChunks, 0, containerHeight)
    /\ nodeText = [i \in 0..(editorChunks - 1) |-> 0]
    /\ scrollToTrigger = -1

\* OptimizedEditor.handleScrollEvent: handleScroll replaces the pending
\* frame callback (the progress handed to onScroll changes no state here)
ScrollEvent(p) ==
    /\ rafPending' = p
    /\ UNCHANGED <<editorChunks, containerHeight, scrollTop, isScrolling,
                   scrollEndPending, enterTimers, editLog, itemsMemo,
                   nodeText, scrollToTrigger>>
    /\ UNCHANGED <<chunkerVars, navVars, trackerVars, sortVars,
                   storageVars, frameVars, demoVars,
                   workerVars>>

\* the requestAnimationFrame callback of handleScroll, and the render that
\* follows the state change
FrameCallback ==
    /\ rafPending # -1
    /\ scrollTop' = rafPending
    /\ isScrolling' = TRUE
    /\ scrollEndPending' = TRUE
    /\ rafPending' = -1
    /\ itemsMemo' = useMemoItems(itemsMemo, editorChunks, scrollTop,
                                  rafPending, containerHeight)
    /\ enterTimers' = DetachUnmounted(enterTimers, itemsMemo')
    /\ nodeText' = ResetUnmounted(nodeText, itemsMemo')
    /\ UNCHANGED <<editorChunks, containerHeight, editLog, scrollToTrigger>>
    /\ UNCHANGED <<chunkerVars, navVars, trackerVars, sortVars,
                   storageVars, frameVars, demoVars,
                   workerVars>>

\* the 150 ms scroll-end timeout
ScrollEndTimer ==
    /\ scrollEndPending
    /\ isScrolling' = FALSE
    /\ scrollEndPending' = FALSE
    /\ UNCHANGED <<editorChunks, containerHeight, scrollTop, rafPending,
                   enterTimers, editLog, itemsMemo, nodeText,
                   scrollToTrigger>>
    /\ UNCHANGED <<chunkerVars, navVars, trackerVars, sortVars,
                   storageVars, frameVars, demoVars,
                   workerVars>>

\* room for nr more entries of editLog, the pending callbacks counted in
EditsLeft(nr) == Len(editLog) + Len(enterTimers) + nr <= MaxEdits

\* the nodes the user edits: the first and the last rendered one
EditedNodes ==
    IF RenderedItems = <<>> THEN {}
    ELSE {RenderedItems[1].index, RenderedItems[Len(RenderedItems)].index}

\* ChunkRenderer.handleInput calls onContentChange
handleInputCalls(isVisible, refAttached) == isVisible /\ refAttached

\* the chunkIndex forwarded one too high
handleChunkChange_PageNumber(item) == item.index + 1

\* the chunkIndex handleChunkChange receives from the closure of an item
handleChunkChange(item) == item.index

\* ChunkRenderer.handleInput on the node of rendered item i, whose text the
\* edit has changed to v
InputEvent(i, v) ==
    /\ EditsLeft(1)
    /\ i \in ItemIndices(RenderedItems)
    /\ v # nodeText[i]
    /\ nodeText' = [nodeText EXCEPT ![i] = v]
    /\ LET item == ItemOf(RenderedItems, i)
       IN  editLog' = Append(editLog,
               [ kind |-> "input", index |-> i,
                 called |-> handleInputCalls(item.isVisible, TRUE),
                 visible |-> item.isVisible,
                 chunk |-> item.chunk,
                 chunkIndex |-> handleChunkChange(item),
                 content |-> v ])
    /\ UNCHANGED <<editorChunks, containerHeight, scrollTop, isScrolling,
                   rafPending, scrollEndPending, enterTimers, itemsMemo,
                   scrollToTrigger>>
    /\ UNCHANGED <<chunkerVars, navVars, trackerVars, sortVars,
                   storageVars, frameVars, demoVars,
                   workerVars>>

\* the Enter key pressed in the node of item i: handleKeyDown schedules the
\* 10 ms callback, then the default action breaks the line, which leaves
\* text v in the node and dispatches the input event handleInput handles
EnterKeyDown(i, v) ==
    /\ EditsLeft(2)
    /\ i \in ItemIndices(RenderedItems)
    /\ v # nodeText[i]
    /\ LET item == ItemOf(RenderedItems, i)
       IN  IF ~item.isVisible
           THEN UNCHANGED <<enterTimers, nodeText, editLog>>
           ELSE /\ enterTimers' =
                       Append(enterTimers,
                           [index |-> i, attached |-> TRUE,
                            chunk |-> item.chunk,
                            chunkIndex |-> handleChunkChange(item)])
                /\ nodeText' = [nodeText EXCEPT ![i] = v]
                /\ editLog' = Append(editLog,
                       [ kind |-> "input", index |-> i,
                         called |-> handleInputCalls(item.isVisible, TRUE),
                         visible |-> item.isVisible,
                         chunk |-> item.chunk,
                         chunkIndex |-> handleChunkChange(item),
                         content |-> v ])
    /\ UNCHANGED <<editorChunks, containerHeight, scrollTop, isScrolling,
                   rafPending, scrollEndPending, itemsMemo, scrollToTrigger>>
    /\ UNCHANGED <<chunkerVars, navVars, trackerVars, sortVars,
                   storageVars, frameVars, demoVars,
                   workerVars>>

\* the Enter callback that calls whatever became of its node
EnterCallbackCalls_NoRefCheck(refAttached) == TRUE

\* the 10 ms callback calls onContentChange: contentRef.current is set
EnterCallbackCalls(refAttached) == refAttached

\* the 10 ms callback of the oldest pending Enter keydown
EnterTimer ==
    /\ enterTimers # <<>>
    /\ LET t == Head(enterTimers)
           items == RenderedItems
       IN  editLog' = Append(editLog,
               [ kind |-> "enter", index |-> t.index,
                 called |-> EnterCallbackCalls(t.attached),
                 visible |-> /\ t.attached
                             /\ t.index \in ItemIndices(items)
                             /\ ItemOf(items, t.index).isVisible,
                 chunk |-> t.chunk,
                 chunkIndex |-> t.chunkIndex,
                 content |-> nodeText[t.index] ])
    /\ enterTimers' = Tail(enterTimers)
    /\ UNCHANGED <<editorChunks, containerHeight, scrollTop, isScrolling,
                   rafPending, scrollEndPending, itemsMemo, nodeText,
                   scrollToTrigger>>
    /\ UNCHANGED <<chunkerVars, navVars, trackerVars, sortVars,
                   storageVars, frameVars, demoVars,
                   workerVars>>

NextEditor ==
    \/ \E p \in ScrollPositions : ScrollEvent(p)
    \/ FrameCallback
    \/ ScrollEndTimer
    \/ \E i \in EditedNodes : \E v \in NodeTexts : InputEvent(i, v)
    \/ \E i \in EditedNodes : \E v \in NodeTexts : EnterKeyDown(i, v)
    \/ EnterTimer

\* Editor.handleScrollTo, reached from DocumentScrollbar.handleJumpTo (Go)
\* and from handleSearchResultClick with progress k / max(1, n - 1): the
\* progress is stored in scrollToTrigger and handed to OptimizedEditor as
\* scrollToProgress, a prop OptimizedEditor neither declares nor reads
\* (scrollProgress and currentSection feed the sidebar alone)
JumpRequest(k) ==
    /\ k \in 0..(editorChunks - 1)
    /\ scrollToTrigger' = k
    /\ UNCHANGED <<editorChunks, containerHeight, scrollTop, isScrolling,
                   rafPending, scrollEndPending, enterTimers, editLog,
                   itemsMemo, nodeText>>
    /\ UNCHANGED <<chunkerVars, navVars, trackerVars, sortVars,
                   storageVars, frameVars, demoVars,
                   workerVars>>

\* the editor page with its jumps, the nodes left unedited
NextEditorJump ==
    \/ \E p \in ScrollPositions : ScrollEvent(p)
    \/ FrameCallback
    \/ ScrollEndTimer
    \/ \E k \in 0..(MaxEditorChunks - 1) : JumpRequest(k)

(***************************************************************************)
(* useVirtualScroll.ts: handleScroll, its animation-frame callback, its    *)
(* scroll-end timeout and the cleanup on unmount, with every pending       *)
(* callback kept explicitly.                                               *)
(***************************************************************************)
MaxScrollSteps == 4

\* the values handleScroll is called with
ScrollTops == { k * ScrollStep : k \in 0..MaxScrollSteps }

\* rafRef.current / scrollTimeoutRef.current is overwritten and the callback
\* it held is left pending
CancelHeld_LeavePending(pending) ==
    [k \in 1..Len(pending) |-> [pending[k] EXCEPT !.held = FALSE]]

\* cancelAnimationFrame(rafRef.current) / clearTimeout(scrollTimeoutRef.current):
\* the callback whose handle the ref holds is removed if it is still pending
CancelHeld(pending) == SelectSeq(pending, LAMBDA c : ~c.held)

\* the delay of the scroll-end timeout
ScrollEndDelay == 150

\* a timeout that is due as soon as it is set
NewTimeout_Immediate == [held |-> TRUE, left |-> 0]

\* setTimeout(() => setIsScrolling(false), 150), its handle in the ref
NewTimeout == [held |-> TRUE, left |-> ScrollEndDelay]

\* totalHeight - containerHeight: the largest scrollTop of the container
ScrollRange == MaxScrollSteps * ScrollStep

\* getViewportInfo().scrollProgress for the scrollTop state top, as the
\* fraction top / (totalHeight - containerHeight)
scrollProgress(top) == [num |-> top, den |-> ScrollRange]

NoProgress == [eventTop |-> -1, progress |-> scrollProgress(-1)]

InitFrames ==
    /\ frames = <<>>
    /\ timeouts = <<>>
    /\ appliedTop = 0
    /\ scrollingFlag = FALSE
    /\ hookMounted = TRUE
    /\ lastCall = [top |-> -1, cancelled |-> FALSE]
    /\ lastFrame = [ran |-> FALSE, cleared |-> FALSE]
    /\ sinceApplied = 0
    /\ lastProgress = NoProgress

\* handleScroll(newScrollTop)
handleScroll(newScrollTop) ==
    /\ hookMounted
    /\ frames' = Append(CancelHeld(frames),
                        [top |-> newScrollTop, held |-> TRUE])
    /\ lastCall' = [top |-> newScrollTop,
                    cancelled |-> Len(CancelHeld(frames)) < Len(frames)]
    /\ UNCHANGED <<timeouts, appliedTop, scrollingFlag, hookMounted,
                   lastFrame, sinceApplied>>
    /\ UNCHANGED <<chunkerVars, navVars, editorVars, trackerVars, sortVars,
                   storageVars, demoVars, workerVars>>

\* OptimizedEditor.handleScrollEvent for a scroll event at eventTop:
\* handleScroll(container.scrollTop), then onScroll with the scrollProgress
\* of getViewportInfo, which reads the scrollTop state of the latest render
handleScrollEvent(eventTop) ==
    /\ handleScroll(eventTop)
    /\ lastProgress' = [eventTop |-> eventTop,
                        progress |-> scrollProgress(appliedTop)]

\* the callback handed to requestAnimationFrame runs
RunFrame ==
    /\ frames # <<>>
    /\ appliedTop' = Head(frames).top
    /\ scrollingFlag' = TRUE
    /\ timeouts' = Append(CancelHeld(timeouts), NewTimeout)
    /\ frames' = Tail(frames)
    /\ lastFrame' = [ran |-> TRUE,
                     cleared |-> Len(CancelHeld(timeouts)) < Len(timeouts)]
    /\ sinceApplied' = 0
    /\ UNCHANGED <<hookMounted, lastCall, lastProgress>>
    /\ UNCHANGED <<chunkerVars, navVars, editorVars, trackerVars, sortVars,
                   storageVars, demoVars, workerVars>>

\* the pending timeouts that are due
DueTimeouts == { k \in 1..Len(timeouts) : timeouts[k].left = 0 }

\* the timeout set by a frame callback runs, 150 ms after it was set
ScrollEndTimeout ==
    /\ DueTimeouts # {}
    /\ scrollingFlag' = FALSE
    /\ timeouts' = RemoveAt(timeouts,
                            CHOOSE k \in DueTimeouts :
                                \A m \in DueTimeouts : k <= m)
    /\ UNCHANGED <<frames, appliedTop, hookMounted, lastCall, lastFrame,
                   sinceApplied, lastProgress>>
    /\ UNCHANGED <<chunkerVars, navVars, editorVars, trackerVars, sortVars,
                   storageVars, demoVars, workerVars>>

\* TickMs pass with no timeout due
FrameTick ==
    /\ DueTimeouts = {}
    /\ timeouts # <<>> \/ sinceApplied < ScrollEndDelay
    /\ timeouts' = [k \in 1..Len(timeouts) |->
                       [timeouts[k] EXCEPT !.left = Max(0, @ - TickMs)]]
    /\ sinceApplied' = Min(ScrollEndDelay, sinceApplied + TickMs)
    /\ UNCHANGED <<frames, appliedTop, scrollingFlag, hookMounted, lastCall,
                   lastFrame, lastProgress>>
    /\ UNCHANGED <<chunkerVars, navVars, editorVars, trackerVars, sortVars,
                   storageVars, demoVars, workerVars>>

\* the cleanup of the hook's unmount effect
UnmountHook ==
    /\ hookMounted
    /\ hookMounted' = FALSE
    /\ frames' = CancelHeld(frames)
    /\ timeouts' = CancelHeld(timeouts)
    /\ UNCHANGED <<appliedTop, scrollingFlag, lastCall, lastFrame,
                   sinceApplied, lastProgress>>
    /\ UNCHANGED <<chunkerVars, navVars, editorVars, trackerVars, sortVars,
                   storageVars, demoVars, workerVars>>

\* the user scrolls
UserScrolls == \E eventTop \in ScrollTops : handleScrollEvent(eventTop)

NextFrames ==
    \/ UserScrolls
    \/ RunFrame
    \/ ScrollEndTimeout
    \/ FrameTick
    \/ UnmountHook

(***************************************************************************)
(* server/routes.ts: the chunker of the demo search, and pages/editor.tsx: *)
(* the demo chunks of the client, over the same text.                      *)
(***************************************************************************)
MaxDemoLines == 3

\* the lines of a demo text: empty, one word, and lines whose word counts
\* lie at the page limits, with blanks at their ends and a capital
DemoLineShapes ==
    { <<>>,
      <<"a">>,
      <<" ", WordRun(ServerMinWordsPerPage - 1)>>,
      <<WordRun(ServerMinWordsPerPage), " ">>,
      <<"A", " ", WordRun(ServerMaxWordsPerPage - ServerMinWordsPerPage)>>,
      <<WordRun(ServerMaxWordsPerPage + 1)>> }

DemoTexts ==
    { JoinWith(ls, <<NL>>) :
        ls \in UNION { [1..n -> DemoLineShapes] : n \in 0..MaxDemoLines } }

DemoDocumentIds == {"demo", "d1"}

\* `${documentId}-chunk-${chunks.length}`
ChunkId(docId, n) == docId \o "-chunk-" \o ToString(n)

\* the chunk the server pushes
ServerNewChunk(st, docId) ==
    [ id             |-> ChunkId(docId, Len(st.chunks)),
      documentId     |-> docId,
      chunkIndex     |-> Len(st.chunks),
      content        |-> JoinWith(st.currentChunk, <<NL, NL>>),
      wordCount      |-> st.currentWordCount,
      startWordIndex |-> st.chunkStartWordIndex,
      endWordIndex   |-> st.totalWordIndex - 1 ]

\* the server's test without the rule for the final paragraph
ServerClosesChunk_NotOnLast(cwc, i, n) == cwc >= ServerMinWordsPerPage

\* the server's test that closes the current chunk before paragraph i
ServerClosesChunk(cwc, i, n) ==
    cwc >= ServerMinWordsPerPage \/ i = n - 1

\* one iteration of the server's for loop, paragraph i (0-based)
ServerLoopBody(st, paragraphs, i, docId) ==
    LET paragraph == paragraphs[i + 1]
        pwc       == WordCount(paragraph)
        st1 ==
            IF st.currentWordCount > 0
               /\ st.currentWordCount + pwc > ServerMaxWordsPerPage
            THEN IF ServerClosesChunk(st.currentWordCount, i, Len(paragraphs))
                 THEN [st EXCEPT !.chunks = Append(@, ServerNewChunk(st, docId)),
                                 !.currentChunk = <<paragraph>>,
                                 !.currentWordCount = pwc,
                                 !.chunkStartWordIndex = st.totalWordIndex]
                 ELSE [st EXCEPT !.currentChunk = Append(@, paragraph),
                                 !.currentWordCount = @ + pwc]
            ELSE [st EXCEPT !.currentChunk = Append(@, paragraph),
                            !.currentWordCount = @ + pwc]
    IN  [st1 EXCEPT !.totalWordIndex = @ + pwc]

RECURSIVE ServerChunkLoop(_, _, _, _)
ServerChunkLoop(st, paragraphs, i, docId) ==
    IF i >= Len(paragraphs) THEN st
    ELSE ServerChunkLoop(ServerLoopBody(st, paragraphs, i, docId),
                         paragraphs, i + 1, docId)

\* chunkTextByParagraphs of server/routes.ts
serverChunkTextByParagraphs(t, docId) ==
    LET paragraphs == SplitParagraphs(t)
        st0 == [ chunks |-> <<>>, currentChunk |-> <<>>,
                 currentWordCount |-> 0, totalWordIndex |-> 0,
                 chunkStartWordIndex |-> 0 ]
        st  == ServerChunkLoop(st0, paragraphs, 0, docId)
    IN  IF Len(paragraphs) = 0 THEN <<>>
        ELSE IF Len(st.currentChunk) > 0
             THEN Append(st.chunks, ServerNewChunk(st, docId))
             ELSE st.chunks

\* convertToDocumentChunks, given the document id the chunker was called
\* with: the id and the documentId are those the chunker gave the chunk at
\* its push, where chunks.length is the chunkIndex; paragraphs is dropped
convertToDocumentChunks(paragraphChunks, docId) ==
    [k \in 1..Len(paragraphChunks) |->
        [ id             |-> ChunkId(docId, paragraphChunks[k].chunkIndex),
          documentId     |-> docId,
          chunkIndex     |-> paragraphChunks[k].chunkIndex,
          content        |-> paragraphChunks[k].content,
          wordCount      |-> paragraphChunks[k].wordCount,
          startWordIndex |-> paragraphChunks[k].startWordIndex,
          endWordIndex   |-> paragraphChunks[k].endWordIndex ]]

\* toLowerCase, on a piece of a text
ToLowerCase(c) == IF c = "A" THEN "a" ELSE c

\* the queries of the demo search: one letter each, none of them the letter
\* of the word runs
DemoQueries == {"a", "A", "b"}

\* content.toLowerCase().includes(query.toLowerCase()) for a one-letter query
ContentIncludes(content, query) ==
    \E i \in 1..Len(content) : ToLowerCase(content[i]) = ToLowerCase(query)

InitDemo ==
    /\ text \in DemoTexts
    /\ maxOpt = DemoMaxWordsPerPage
    /\ minOpt = DemoMinWordsPerPage
    /\ chunks = <<>>
    /\ chunkerPc = "input"
    /\ demoDocumentId \in DemoDocumentIds
    /\ searchQuery = ""
    /\ serverChunks = <<>>
    /\ searchHits = <<>>
    /\ demoChunks = <<>>
    /\ demoPc = [server |-> FALSE, client |-> FALSE]

\* searchInDemoDocument(query): the text is chunked anew for every search;
\* a result carries the chunkIndex of a chunk whose content holds the query
\* (its excerpt is left out)
searchInDemoDocument(query) ==
    /\ query # searchQuery
    /\ searchQuery' = query
    /\ serverChunks' = serverChunkTextByParagraphs(text, demoDocumentId)
    /\ searchHits' =
           LET found == SelectSeq(serverChunks',
                            LAMBDA c : ContentIncludes(c.content, query))
           IN  [k \in 1..Len(found) |-> found[k].chunkIndex]
    /\ demoPc' = [demoPc EXCEPT !.server = TRUE]
    /\ UNCHANGED <<demoDocumentId, demoChunks>>
    /\ UNCHANGED <<chunkerVars, navVars, editorVars, trackerVars, sortVars,
                   storageVars, frameVars, workerVars>>

\* Editor: demoChunks = convertToDocumentChunks(chunkTextByParagraphs(
\* demoText, id, {maxWordsPerPage: 600, minWordsPerPage: 150}))
DemoChunks ==
    /\ chunkerPc = "input"
    /\ chunks' = chunkTextByParagraphs(text, maxOpt, minOpt)
    /\ chunkerPc' = "done"
    /\ demoChunks' = convertToDocumentChunks(chunks', demoDocumentId)
    /\ demoPc' = [demoPc EXCEPT !.client = TRUE]
    /\ UNCHANGED <<text, maxOpt, minOpt>>
    /\ UNCHANGED <<demoDocumentId, searchQuery, serverChunks, searchHits>>
    /\ UNCHANGED <<navVars, editorVars, trackerVars, sortVars, storageVars,
                   frameVars, workerVars>>

NextDemo ==
    \/ \E query \in DemoQueries : searchInDemoDocument(query)
    \/ DemoChunks

(***************************************************************************)
(* workers/searchWorker.ts (and its inline copy in useSearchWorker): the   *)
(* index over the words of the chunks and the search in it.                *)
(***************************************************************************)
PositionBase == 10000
ResultLimit == 100
ContextBefore == 5
ContextAfter == 6
MinPartialQuery == 3
MaxIndexedChunks == 2
MaxIndexRuns == 1

\* a word is a sequence of characters; a content is a sequence of pieces,
\* each a word or the whitespace between two words
Blank == <<" ">>

WordAbc == <<"a", "b", "c">>
WordAbcCapital == <<"A", "b", "c">>
WordAbcd == <<"a", "b", "c", "d">>
WordAb == <<"a", "b">>
WordXy == <<"x", "y">>

\* a content of PositionBase + 1 words: "xy" again and again, then "abc"
LongContent ==
    [k \in 1..(2 * PositionBase + 1) |->
        IF k % 2 = 0 THEN Blank
        ELSE IF k = 2 * PositionBase + 1 THEN WordAbc ELSE WordXy]

\* the chunk contents of the model, by name
ContentNames == {"empty", "mixed", "pair", "long"}

ContentOf(name) ==
    CASE name = "empty" -> <<>>
      [] name = "mixed" -> <<WordAbcCapital, Blank, Blank, WordAbcd>>
      [] name = "pair"  -> <<Blank, WordAb, Blank, WordXy>>
      [] name = "long"  -> LongContent

\* the chunks useSearchWorker sends: chunks.map((chunk, index) => ...), the
\* index of a chunk is its place in the array
IndexMessages ==
    UNION { [1..n -> ContentNames] : n \in 1..MaxIndexedChunks }

\* the queries the hook passes on: trimmed, two characters or more
WorkerQueries ==
    {WordAbc, WordAbcCapital, WordAb, WordXy, <<"b", "c", "d">>}

\* toLowerCase, on a word or a blank
LowerWord(w) == [k \in 1..Len(w) |-> ToLowerCase(w[k])]

\* word.includes(query)
WordIncludes(word, query) ==
    \E i \in 0..(Len(word) - Len(query)) :
        SubSeq(word, i + 1, i + Len(query)) = query

\* content.toLowerCase().split(/\s+/).filter(w => w.length > 0)
WordsOfContent(content) ==
    SelectSeq([k \in 1..Len(content) |-> LowerWord(content[k])],
              LAMBDA piece : piece # Blank)

\* chunkIndex * 10000 + wordIndex
EncodePosition(chunkIndex, wordIndex) == chunkIndex * PositionBase + wordIndex

\* Math.floor(encoded / 10000) and encoded % 10000
DecodePosition(encoded) ==
    [ chunkIndex |-> encoded \div PositionBase,
      wordIndex  |-> encoded % PositionBase ]

\* searchIndex.chunkWords after buildIndex
BuildChunkWords(message) ==
    [c \in 1..Len(message) |-> WordsOfContent(ContentOf(message[c]))]

\* the words of the chunks in the order the two forEach loops visit them,
\* each with its encoded position and its place in that order
RECURSIVE VisitAll(_, _, _)
VisitAll(allWords, c, from) ==
    IF c > Len(allWords) THEN <<>>
    ELSE [k \in 1..Len(allWords[c]) |->
             [ word |-> allWords[c][k],
               encoded |-> EncodePosition(c - 1, k - 1),
               at |-> from + k ]]
         \o VisitAll(allWords, c + 1, from + Len(allWords[c]))

\* the map entries of the visits grouped by word, in the order of the first
\* visit of each word
RECURSIVE MapEntries(_)
MapEntries(groups) ==
    IF groups = {} THEN <<>>
    ELSE LET g == CHOOSE g \in groups :
                      \A h \in groups : g[1].at <= h[1].at
         IN  <<[ word      |-> g[1].word,
                 positions |-> [k \in 1..Len(g) |-> g[k].encoded] ]>>
             \o MapEntries(groups \ {g})

\* searchIndex.wordMap after buildIndex: the distinct words in the order of
\* their first visit, each with the positions pushed for it
BuildWordMap(allWords) ==
    LET visits == VisitAll(allWords, 1, 0)
        words  == { visits[k].word : k \in 1..Len(visits) }
    IN  MapEntries({ SelectSeq(visits, LAMBDA v : v.word = w) : w \in words })

\* searchIndex.wordMap.get(word) || []
MapGet(map, word) ==
    LET hit == SelectSeq(map, LAMBDA e : e.word = word)
    IN  IF hit = <<>> THEN <<>> ELSE hit[1].positions

\* the partial matches: the positions of every word that includes the query
\* and is not the query, in the order of the map
PartialMatches(map, queryLower) ==
    IF Len(queryLower) >= MinPartialQuery
    THEN Flatten([i \in 1..Len(map) |->
             IF WordIncludes(map[i].word, queryLower)
                /\ map[i].word # queryLower
             THEN map[i].positions ELSE <<>>])
    ELSE <<>>

\* words.slice(start, end).join(' ')
ContextOf(words, wordIndex) ==
    LET start == Max(0, wordIndex - ContextBefore)
        end   == Min(Len(words), wordIndex + ContextAfter)
    IN  JoinWith(SubSeq(words, start + 1, end), <<" ">>)

\* the results of search(query): the decoded positions whose chunk has
\* words, the first ResultLimit of them with their context
SearchResults(map, allWords, query) ==
    LET queryLower == LowerWord(query)
        matches == MapGet(map, queryLower) \o PartialMatches(map, queryLower)
        decoded == [k \in 1..Len(matches) |-> DecodePosition(matches[k])]
        found   == SelectSeq(decoded,
                       LAMBDA r : r.chunkIndex + 1 \in 1..Len(allWords))
        limited == SubSeq(found, 1, Min(Len(found), ResultLimit))
    IN  [ type |-> "searchResults",
          query |-> query,
          results |->
              [k \in 1..Len(limited) |->
                  [ chunkIndex |-> limited[k].chunkIndex,
                    wordIndex  |-> limited[k].wordIndex,
                    context    |-> ContextOf(
                                       allWords[limited[k].chunkIndex + 1],
                                       limited[k].wordIndex) ]],
          totalMatches |-> Len(found) ]

NothingPosted == [type |-> "none"]

InitWorker ==
    /\ wordMap = <<>>
    /\ chunkWords = <<>>
    /\ indexedChunks = <<>>
    /\ workerResults = NothingPosted
    /\ indexRuns = 0

\* the worker receives an index message: buildIndex(message.chunks)
buildIndex(message) ==
    /\ indexRuns < MaxIndexRuns
    /\ indexRuns' = indexRuns + 1
    /\ indexedChunks' = message
    /\ chunkWords' = BuildChunkWords(message)
    /\ wordMap' = BuildWordMap(chunkWords')
    /\ workerResults' = [ type |-> "indexed",
                          totalWords |-> Len(wordMap'),
                          totalChunks |-> Len(message) ]
    /\ UNCHANGED <<chunkerVars, navVars, editorVars, trackerVars, sortVars,
                   storageVars, frameVars, demoVars>>

\* the worker receives a search message: search(message.query)
search(query) ==
    /\ workerResults' = SearchResults(wordMap, chunkWords, query)
    /\ UNCHANGED <<wordMap, chunkWords, indexedChunks, indexRuns>>
    /\ UNCHANGED <<chunkerVars, navVars, editorVars, trackerVars, sortVars,
                   storageVars, frameVars, demoVars>>

\* the worker receives a clear message
clear ==
    /\ wordMap' = <<>>
    /\ chunkWords' = <<>>
    /\ workerResults' = [type |-> "cleared"]
    /\ indexedChunks' = <<>>
    /\ UNCHANGED indexRuns
    /\ UNCHANGED <<chunkerVars, navVars, editorVars, trackerVars, sortVars,
                   storageVars, frameVars, demoVars>>

NextWorker ==
    \/ \E message \in IndexMessages : buildIndex(message)
    \/ \E query \in WorkerQueries : search(query)
    \/ clear

(***************************************************************************)
(* server/storage.ts: MemStorage, its chunks and the range query.          *)
(***************************************************************************)
MaxStoredChunks == 3
MaxIndex == 1

\* the document ids in use
DocIds == {"d1", "d2"}

ChunkIds == 1..MaxStoredChunks

ChunkIndices == 0..MaxIndex

NoQuery == [asked |-> FALSE]

\* randomUUID(): an id no chunk has had, here the number of the creation
FreshChunkId == chunksCreated + 1

\* the filter with the end index left out of the range
ChunkInRange_EndExclusive(chunk, documentId, startIndex, endIndex) ==
    /\ chunk.documentId = documentId
    /\ chunk.chunkIndex >= startIndex
    /\ chunk.chunkIndex < endIndex

\* the filter of getDocumentChunkRange
ChunkInRange(chunk, documentId, startIndex, endIndex) ==
    /\ chunk.documentId = documentId
    /\ chunk.chunkIndex >= startIndex
    /\ chunk.chunkIndex <= endIndex

\* Array.prototype.sort((a, b) => a.chunkIndex - b.chunkIndex): the order is
\* total on chunkIndex and the sort is stable, so each element goes behind
\* the elements before it that are not greater
RECURSIVE InsertByChunkIndex(_, _)
InsertByChunkIndex(sorted, c) ==
    IF sorted = <<>> THEN <<c>>
    ELSE IF Head(sorted).chunkIndex - c.chunkIndex <= 0
         THEN <<Head(sorted)>> \o InsertByChunkIndex(Tail(sorted), c)
         ELSE <<c>> \o sorted

RECURSIVE SortByChunkIndex(_)
SortByChunkIndex(cs) ==
    IF cs = <<>> THEN <<>>
    ELSE InsertByChunkIndex(SortByChunkIndex(SubSeq(cs, 1, Len(cs) - 1)),
                            cs[Len(cs)])

getDocumentChunkRange(stored, documentId, startIndex, endIndex) ==
    SortByChunkIndex(
        SelectSeq(stored,
            LAMBDA c : ChunkInRange(c, documentId, startIndex, endIndex)))

InitStorage ==
    /\ documents = {}
    /\ documentChunks = <<>>
    /\ chunksCreated = 0
    /\ rangeQuery = NoQuery
    /\ rangeResult = <<>>

\* createDocument: the new document gets an id of its own
createDocument(d) ==
    /\ ~rangeQuery.asked
    /\ d \notin documents
    /\ documents' = documents \cup {d}
    /\ UNCHANGED <<documentChunks, chunksCreated, rangeQuery, rangeResult>>
    /\ UNCHANGED <<chunkerVars, navVars, editorVars, trackerVars, sortVars, frameVars, demoVars,
                   workerVars>>

\* createDocumentChunk: the documentId of the chunk is not looked up
createDocumentChunk(d, idx) ==
    /\ ~rangeQuery.asked
    /\ chunksCreated < MaxStoredChunks
    /\ documentChunks' = Append(documentChunks,
            [key |-> FreshChunkId, id |-> FreshChunkId,
             documentId |-> d, chunkIndex |-> idx])
    /\ chunksCreated' = chunksCreated + 1
    /\ UNCHANGED <<documents, rangeQuery, rangeResult>>
    /\ UNCHANGED <<chunkerVars, navVars, editorVars, trackerVars, sortVars, frameVars, demoVars,
                   workerVars>>

\* the keys of the documentChunks map
StoredKeys == { documentChunks[k].key : k \in 1..Len(documentChunks) }

\* updateDocumentChunk(key, updates): { ...chunk, ...updates } is stored under
\* the key it was found under, in its place in the map. The updates give an
\* id, a documentId and a chunkIndex; a field they repeat is a field a
\* partial update leaves out.
updateDocumentChunk(key, newId, d, idx) ==
    /\ ~rangeQuery.asked
    /\ key \in StoredKeys
    /\ documentChunks' =
           [k \in 1..Len(documentChunks) |->
               IF documentChunks[k].key = key
               THEN [documentChunks[k] EXCEPT
                        !.id = newId, !.documentId = d, !.chunkIndex = idx]
               ELSE documentChunks[k]]
    /\ UNCHANGED <<documents, chunksCreated, rangeQuery, rangeResult>>
    /\ UNCHANGED <<chunkerVars, navVars, editorVars, trackerVars, sortVars,
                   frameVars, demoVars, workerVars>>

\* the values deleteDocument filters out of the map: chunksToDelete
chunksToDelete(stored, d) == SelectSeq(stored, LAMBDA c : c.documentId = d)

\* chunksToDelete.forEach(chunk => this.documentChunks.delete(chunk.id)):
\* the entries whose key is the id of a chunk to delete are removed
DeleteByValueId(stored, doomed) ==
    SelectSeq(stored,
        LAMBDA c : ~(\E k \in 1..Len(doomed) : doomed[k].id = c.key))

\* deleteDocument: the document, and the entries under the ids of the
\* chunks that name it
deleteDocument(d) ==
    /\ ~rangeQuery.asked
    /\ documents' = documents \ {d}
    /\ documentChunks' =
           DeleteByValueId(documentChunks, chunksToDelete(documentChunks, d))
    /\ UNCHANGED <<chunksCreated, rangeQuery, rangeResult>>
    /\ UNCHANGED <<chunkerVars, navVars, editorVars, trackerVars, sortVars,
                   frameVars, demoVars, workerVars>>

\* a caller asks for the chunks startIndex..endIndex of a document; the
\* methods are called one at a time
GetRange(d, startIndex, endIndex) ==
    /\ ~rangeQuery.asked
    /\ rangeQuery' = [asked |-> TRUE, documentId |-> d,
                      startIndex |-> startIndex, endIndex |-> endIndex]
    /\ rangeResult' =
           getDocumentChunkRange(documentChunks, d, startIndex, endIndex)
    /\ UNCHANGED <<documents, documentChunks, chunksCreated>>
    /\ UNCHANGED <<chunkerVars, navVars, editorVars, trackerVars, sortVars, frameVars, demoVars,
                   workerVars>>

\* the caller has taken the result of its query
ReturnRange ==
    /\ rangeQuery.asked
    /\ rangeQuery' = NoQuery
    /\ rangeResult' = <<>>
    /\ UNCHANGED <<documents, documentChunks, chunksCreated>>
    /\ UNCHANGED <<chunkerVars, navVars, editorVars, trackerVars, sortVars, frameVars, demoVars,
                   workerVars>>

\* the bounds a range query is asked with
RangeBounds == (0 - 1)..(MaxIndex + 1)

\* the methods one at a time, with updates that carry no id: the id they
\* repeat is the key, which is the id createDocumentChunk gave
NextStorage ==
    \/ \E d \in DocIds : createDocument(d)
    \/ \E d \in DocIds : \E idx \in ChunkIndices : createDocumentChunk(d, idx)
    \/ \E key \in ChunkIds : \E d \in DocIds : \E idx \in ChunkIndices :
           updateDocumentChunk(key, key, d, idx)
    \/ \E d \in DocIds : deleteDocument(d)
    \/ \E d \in DocIds : \E a, b \in RangeBounds : GetRange(d, a, b)
    \/ ReturnRange

\* the methods that write, with updates that may carry an id as well
NextStorageWrites ==
    \/ \E d \in DocIds : createDocument(d)
    \/ \E d \in DocIds : \E idx \in ChunkIndices : createDocumentChunk(d, idx)
    \/ \E key \in ChunkIds : \E newId \in ChunkIds :
           \E d \in DocIds : \E idx \in ChunkIndices :
               updateDocumentChunk(key, newId, d, idx)
    \/ \E d \in DocIds : deleteDocument(d)

(***************************************************************************)
(* Specifications: one per component, the others idle.                     *)
(***************************************************************************)
IdleNav ==
    /\ totalPages = 0
    /\ bufferSize = 0
    /\ currentPage = 0
    /\ scrollBehavior = ""
    /\ timers = <<>>
    /\ scrollLog = <<>>
    /\ callLog = <<>>
    /\ audioChunk = -1
    /\ editorPage = 0
    /\ lastInput = [kind |-> "none", target |-> -1]

IdleEditor ==
    /\ editorChunks = 0
    /\ containerHeight = 0
    /\ scrollTop = 0
    /\ isScrolling = FALSE
    /\ rafPending = -1
    /\ scrollEndPending = FALSE
    /\ enterTimers = <<>>
    /\ editLog = <<>>
    /\ itemsMemo = <<>>
    /\ nodeText = <<>>
    /\ scrollToTrigger = -1

IdleTracker ==
    /\ externalPage = -1
    /\ observed = {}
    /\ lastIntersectingPage = -1
    /\ tornDown = FALSE
    /\ lastCallback = [ran |-> FALSE]

IdleSort ==
    /\ sortBatch = <<>>
    /\ sortCurrent = 0
    /\ sortPc = "idle"

IdleFrames ==
    /\ frames = <<>>
    /\ timeouts = <<>>
    /\ appliedTop = 0
    /\ scrollingFlag = FALSE
    /\ hookMounted = FALSE
    /\ lastCall = [top |-> -1, cancelled |-> FALSE]
    /\ lastFrame = [ran |-> FALSE, cleared |-> FALSE]
    /\ sinceApplied = 0
    /\ lastProgress = NoProgress

IdleDemo ==
    /\ demoDocumentId = ""
    /\ searchQuery = ""
    /\ serverChunks = <<>>
    /\ searchHits = <<>>
    /\ demoChunks = <<>>
    /\ demoPc = [server |-> FALSE, client |-> FALSE]

IdleWorker ==
    /\ wordMap = <<>>
    /\ chunkWords = <<>>
    /\ indexedChunks = <<>>
    /\ workerResults = NothingPosted
    /\ indexRuns = 0

IdleSearch == IdleDemo /\ IdleWorker

IdleRest ==
    IdleTracker /\ IdleSort /\ InitStorage /\ IdleFrames /\ IdleSearch

InitChunker == InitChunkerInputs /\ IdleNav /\ IdleEditor /\ IdleRest

NextChunker == Chunk

SpecChunker == InitChunker /\ [][NextChunker]_vars

InitNavigation == InitNav /\ IdleChunker /\ IdleEditor /\ IdleRest


SpecNavigation == InitNavigation /\ [][NextNav]_vars

InitEditor == InitEditorInputs /\ IdleChunker /\ IdleNav /\ IdleRest

SpecEditor == InitEditor /\ [][NextEditor]_vars

\* the frame callback and the scroll-end timeout run once scheduled; the
\* user is free to stop scrolling and jumping
SpecEditorJump ==
    /\ InitEditor
    /\ [][NextEditorJump]_vars
    /\ WF_vars(FrameCallback)
    /\ WF_vars(ScrollEndTimer)

InitTrackerSpec ==
    /\ InitTracker
    /\ IdleChunker /\ IdleEditor /\ IdleSort /\ InitStorage /\ IdleFrames
    /\ IdleSearch

SpecTracker == InitTrackerSpec /\ [][NextTracker]_vars

SpecPassiveScroll == InitTrackerSpec /\ [][NextPassiveScroll]_vars

InitSortedCallbackSpec ==
    /\ InitSortedCallback
    /\ IdleChunker /\ IdleNav /\ IdleEditor /\ IdleTracker /\ InitStorage
    /\ IdleFrames /\ IdleSearch

SpecSortedCallback == InitSortedCallbackSpec /\ [][NextSortedCallback]_vars

InitStorageSpec ==
    /\ InitStorage
    /\ IdleChunker /\ IdleNav /\ IdleEditor /\ IdleTracker /\ IdleSort
    /\ IdleFrames /\ IdleSearch

SpecStorage == InitStorageSpec /\ [][NextStorage]_vars

SpecStorageWrites == InitStorageSpec /\ [][NextStorageWrites]_vars

InitDemoSpec ==
    /\ InitDemo
    /\ IdleNav /\ IdleEditor /\ IdleTracker /\ IdleSort /\ InitStorage
    /\ IdleFrames /\ IdleWorker

SpecDemo == InitDemoSpec /\ [][NextDemo]_vars

InitWorkerSpec ==
    /\ InitWorker
    /\ IdleChunker /\ IdleNav /\ IdleEditor /\ IdleTracker /\ IdleSort
    /\ InitStorage /\ IdleFrames /\ IdleDemo

SpecWorker == InitWorkerSpec /\ [][NextWorker]_vars

InitFramesSpec ==
    /\ InitFrames
    /\ IdleChunker /\ IdleNav /\ IdleEditor /\ IdleTracker /\ IdleSort
    /\ InitStorage /\ IdleSearch

SpecFrames == InitFramesSpec /\ [][NextFrames]_vars

\* the browser runs a requested frame and a due timeout, and time passes;
\* the user is free to stop scrolling
SpecFramesFair ==
    /\ InitFramesSpec
    /\ [][NextFrames]_vars
    /\ WF_vars(RunFrame)
    /\ WF_vars(ScrollEndTimeout)
    /\ WF_vars(FrameTick)

(***************************************************************************)
(* Claims about the chunker (SpecChunker).                                 *)
(***************************************************************************)
MaxWords == maxWordsPerPage(maxOpt)
MinWords == minWordsPerPage(maxOpt, minOpt)

\* the paragraphs of a text, stated without the regular expression: the
\* pieces between newlines, trimmed, the empty ones left out
RECURSIVE LinesOf(_, _)
LinesOf(s, piece) ==
    IF s = <<>> THEN <<piece>>
    ELSE IF Head(s) = NL THEN <<piece>> \o LinesOf(Tail(s), <<>>)
    ELSE LinesOf(Tail(s), Append(piece, Head(s)))

NonEmptyParagraphs(s) ==
    LET ls == LinesOf(s, <<>>)
    IN  SelectSeq([k \in 1..Len(ls) |-> Trim(ls[k])], LAMBDA p : p # <<>>)

TotalWords(s) ==
    LET ps == NonEmptyParagraphs(s)
    IN  SumSeq([k \in 1..Len(ps) |-> WordCount(ps[k])])

ChunkParagraphs == Flatten([k \in 1..Len(chunks) |-> chunks[k].paragraphs])

\* the number of paragraphs in the chunks before chunk k
ParagraphsBefore(k) ==
    SumSeq([m \in 1..(k - 1) |-> Len(chunks[m].paragraphs)])

\* the words of the first j - 1 paragraphs of chunk k
WordsBefore(k, j) ==
    SumSeq([m \in 1..(j - 1) |-> WordCount(chunks[k].paragraphs[m])])

OptionsOrdered == MaxWords >= MinWords /\ MinWords >= 1

\* C1: the word indices of the returned chunks are globally contiguous:
\* the first chunk starts at 0, each chunk starts right after the one before
\* it ends, and the last chunk ends at the total word count minus one.
C1_WordIndicesContiguous ==
    (chunkerPc = "done" /\ chunks # <<>>) =>
        /\ chunks[1].startWordIndex = 0
        /\ \A k \in 1..(Len(chunks) - 1) :
               chunks[k].endWordIndex + 1 = chunks[k + 1].startWordIndex
        /\ chunks[Len(chunks)].endWordIndex = TotalWords(text) - 1

C1_Witness ==
    /\ chunkerPc = "done"
    /\ Len(chunks) >= 3
    /\ \E k \in 1..Len(chunks) : Len(chunks[k].paragraphs) >= 2

\* C2: the paragraph lists of the chunks, concatenated in chunkIndex order,
\* are exactly the non-empty trimmed paragraphs of the input in their order.
C2_ParagraphsReconstructed ==
    chunkerPc = "done" =>
        /\ ChunkParagraphs = NonEmptyParagraphs(text)
        /\ \A k \in 1..Len(chunks) : chunks[k].chunkIndex = k - 1

C2_Witness ==
    /\ chunkerPc = "done"
    /\ Len(chunks) >= 2
    /\ \E k \in 1..Len(chunks) : Len(chunks[k].paragraphs) >= 2
    /\ \E i \in 1..(Len(text) - 2) :
           text[i] = NL /\ text[i + 1] = " " /\ text[i + 2] = NL

\* C3 as claimed: with max >= min >= 1 every chunk but the last has at
\* least minWordsPerPage words.
C3_Original ==
    (chunkerPc = "done" /\ OptionsOrdered) =>
        \A k \in 1..(Len(chunks) - 1) : chunks[k].wordCount >= MinWords

\* C3 as amended: with max >= min >= 1 every chunk but the last has at
\* least minWordsPerPage words, or is the second-to-last chunk and was
\* closed on the final paragraph, which then is the whole last chunk.
C3_MinimumSizeButClosingOnLast ==
    (chunkerPc = "done" /\ OptionsOrdered) =>
        \A k \in 1..(Len(chunks) - 1) :
            \/ chunks[k].wordCount >= MinWords
            \/ /\ k = Len(chunks) - 1
               /\ Len(chunks[Len(chunks)].paragraphs) = 1

C3_Witness ==
    /\ chunkerPc = "done"
    /\ OptionsOrdered
    /\ Len(chunks) >= 3
    /\ chunks[Len(chunks) - 1].wordCount < MinWords
    /\ chunks[1].wordCount >= MinWords

\* C4 as claimed: a paragraph with more than maxWordsPerPage words is the
\* only paragraph of its chunk.
C4_Original ==
    chunkerPc = "done" =>
        \A k \in 1..Len(chunks) :
            \A j \in 1..Len(chunks[k].paragraphs) :
                WordCount(chunks[k].paragraphs[j]) > MaxWords
                    => Len(chunks[k].paragraphs) = 1

\* C4 as amended: a paragraph with more than maxWordsPerPage words is the
\* first paragraph of its chunk unless the paragraphs before it in the
\* chunk total fewer than minWordsPerPage words and it is not the final
\* paragraph of the text; with max >= min no paragraph follows it in its
\* chunk.
C4_OversizedAloneOrForceAppended ==
    chunkerPc = "done" =>
        \A k \in 1..Len(chunks) :
            \A j \in 1..Len(chunks[k].paragraphs) :
                WordCount(chunks[k].paragraphs[j]) > MaxWords =>
                    /\ \/ j = 1
                       \/ /\ WordsBefore(k, j) < MinWords
                          /\ ParagraphsBefore(k) + j < Len(ChunkParagraphs)
                    /\ MaxWords >= MinWords => j = Len(chunks[k].paragraphs)

C4_Witness ==
    /\ chunkerPc = "done"
    /\ MaxWords >= MinWords
    /\ \E k \in 1..Len(chunks) :
           /\ Len(chunks[k].paragraphs) >= 2
           /\ WordCount(chunks[k].paragraphs[Len(chunks[k].paragraphs)]) > MaxWords
    /\ \E k \in 1..Len(chunks) :
           /\ Len(chunks[k].paragraphs) = 1
           /\ WordCount(chunks[k].paragraphs[1]) > MaxWords

\* C32: for maxWordsPerPage >= minWordsPerPage >= 1, a returned chunk with
\* more than maxWordsPerPage words is a single paragraph or has fewer than
\* minWordsPerPage words in all its paragraphs but the last.
C32_OverLimitByOneParagraph ==
    (chunkerPc = "done" /\ OptionsOrdered) =>
        \A k \in 1..Len(chunks) :
            chunks[k].wordCount > MaxWords =>
                \/ Len(chunks[k].paragraphs) = 1
                \/ WordsBefore(k, Len(chunks[k].paragraphs)) < MinWords

C32_Witness ==
    /\ chunkerPc = "done"
    /\ OptionsOrdered
    /\ \E k \in 1..Len(chunks) :
           /\ chunks[k].wordCount > MaxWords
           /\ Len(chunks[k].paragraphs) >= 2
    /\ \E k \in 1..Len(chunks) :
           /\ chunks[k].wordCount > MaxWords
           /\ Len(chunks[k].paragraphs) = 1
    /\ \E k \in 1..Len(chunks) : chunks[k].wordCount <= MaxWords

OnlyWhitespace(s) == \A i \in 1..Len(s) : IsSpace(s[i])

\* C21: the chunker returns no chunk for the empty text and for a text of
\* whitespace and line breaks only, and at least one chunk for a text with
\* a character that is not whitespace.
C21_EmptyExactlyForBlankText ==
    chunkerPc = "done" => (chunks = <<>> <=> OnlyWhitespace(text))

C21_Witness ==
    /\ chunkerPc = "done"
    /\ OnlyWhitespace(text)
    /\ \E i \in 1..Len(text) : text[i] = NL
    /\ \E i \in 1..Len(text) : text[i] = " "
    /\ chunks = <<>>

(***************************************************************************)
(* Claims about useVirtualization and its jumps (SpecNavigation).          *)
(***************************************************************************)
InRange(k) == 0 <= k /\ k < totalPages

Last(sq) == sq[Len(sq)]

\* C5: with the current page c in range, the materialized chunks are
\* exactly those with indices max(0, c - b) .. min(n - 1, c + b), ascending.
C5_WindowIsClampedRange ==
    InRange(currentPage) =>
        LET lo == Max(0, currentPage - bufferSize)
            hi == Min(totalPages - 1, currentPage + bufferSize)
        IN  visibleChunks(totalPages, currentPage, bufferSize)
                = [k \in 1..(hi - lo + 1) |-> lo + k - 1]

C5_Witness ==
    /\ callLog # <<>>
    /\ bufferSize >= 1
    /\ currentPage = totalPages - 1
    /\ currentPage - bufferSize > 0
    /\ Len(visibleChunks(totalPages, currentPage, bufferSize)) = bufferSize + 1

\* C7: two in-range jumps, the second made before the settle timer of the
\* first has fired, end in exactly one scroll command, to the second target.
C7_Original ==
    ( /\ timers = <<>>
      /\ Len(callLog) = 2
      /\ callLog[2].overlaps
      /\ InRange(callLog[1].target)
      /\ InRange(callLog[2].target) )
        => scrollLog = <<callLog[2].target>>

\* C8: a user jump to page k made while audio sync reports a chunk c other
\* than -1 and k is honored: once the timers have fired the current page is
\* k and the last scroll command went to k.
C8_Original ==
    ( /\ timers = <<>>
      /\ lastInput.kind = "jump"
      /\ InRange(lastInput.target)
      /\ audioChunk # -1
      /\ audioChunk # lastInput.target )
        => /\ currentPage = lastInput.target
           /\ scrollLog # <<>>
           /\ Last(scrollLog) = lastInput.target

\* C9: a scrollToChunk call with a target below 0 or at or past chunks.length
\* changes neither the current page nor the materialized chunks, issues no
\* scroll command and leaves the navigation state as it was.
C9_Original ==
    [][ ( /\ Len(callLog') > Len(callLog)
          /\ ~InRange(callLog'[Len(callLog) + 1].target) )
            => /\ currentPage' = currentPage
               /\ MountedPages' = MountedPages
               /\ scrollLog' = scrollLog
               /\ scrollBehavior' = scrollBehavior
               /\ timers' = timers ]_vars

\* C22: a step that calls scrollToChunk leaves the current page at the
\* target of its last call and issues no scroll command; a scroll command
\* is issued only by a due settle timer of an earlier call, for its own
\* target, and only while the node of that target is mounted.
C22_ScrollAfterPageSetAndOnlyIfMounted ==
    [][ /\ Len(callLog') > Len(callLog) =>
              /\ currentPage' = callLog'[Len(callLog')].target
              /\ scrollLog' = scrollLog
        /\ scrollLog' # scrollLog =>
              \E i \in 1..Len(timers) :
                  /\ timers[i].kind = "settle"
                  /\ timers[i].left <= 0
                  /\ scrollLog' = Append(scrollLog, timers[i].target)
                  /\ timers[i].target \in MountedPages
                  /\ \E c \in 1..Len(callLog) :
                         callLog[c].target = timers[i].target ]_vars

C22_Witness ==
    /\ timers = <<>>
    /\ Len(callLog) = 2
    /\ Len(scrollLog) = 1
    /\ InRange(callLog[1].target)
    /\ InRange(callLog[2].target)
    /\ scrollLog[1] = callLog[2].target

\* C23: whenever a settle timer assigns container.scrollTop, the scroll
\* behavior of the container is 'auto'.
C23_Original ==
    [][ scrollLog' # scrollLog => scrollBehavior = "auto" ]_vars

\* C24: once every pending timer of the jumps made so far has fired, the
\* scroll behavior of the container is 'smooth' again, also when the
\* target node of a jump was not found.
C24_Original ==
    (callLog # <<>> /\ timers = <<>>) => scrollBehavior = "smooth"

\* C17: whatever the chunk count, the buffer size and the current page (in
\* range or not), at most 2 * bufferSize + 1 chunks are materialized.
C17_Original ==
    Len(visibleChunks(totalPages, currentPage, bufferSize))
        <= 2 * bufferSize + 1

(***************************************************************************)
(* Claims about useVirtualScroll and OptimizedEditor (SpecEditor).         *)
(***************************************************************************)
\* C6: the virtual items have consecutive, duplicate-free indices, each is
\* at offset index * itemHeight with height itemHeight and isVisible true,
\* each item ends where the next begins, and item.chunk is chunks[item.index].
C6_ItemsSequentialAndGapless ==
    LET items == RenderedItems
    IN  /\ \A k \in 1..Len(items) :
               /\ items[k].index \in 0..(editorChunks - 1)
               /\ items[k].offset = items[k].index * CHUNK_HEIGHT
               /\ items[k].height = CHUNK_HEIGHT
               /\ items[k].isVisible = TRUE
               /\ items[k].chunk = items[k].index
        /\ \A k \in 1..(Len(items) - 1) :
               /\ items[k + 1].index = items[k].index + 1
               /\ items[k].offset + items[k].height = items[k + 1].offset

C6_Witness ==
    /\ scrollTop > 0
    /\ Len(RenderedItems) >= 2
    /\ RenderedItems[1].index > 0
    /\ RenderedItems[Len(RenderedItems)].index = editorChunks - 1

\* the chunks whose extent [i*itemHeight, (i+1)*itemHeight) intersects the
\* viewport [top, top + height)
InViewport(n, top, height, itemHeight) ==
    { i \in 0..(n - 1) :
        i * itemHeight < top + height /\ (i + 1) * itemHeight > top }

\* C31: with scrollTop >= 0, every chunk whose extent intersects the viewport
\* is among the virtual items, for the items OptimizedEditor renders and for
\* every overscan from 0 up to the one it passes.
C31_ViewportChunksMaterialized ==
    scrollTop >= 0 =>
        /\ InViewport(editorChunks, scrollTop, containerHeight, CHUNK_HEIGHT)
               \subseteq ItemIndices(RenderedItems)
        /\ \A overscan \in 0..Overscan :
               InViewport(editorChunks, scrollTop, containerHeight,
                          CHUNK_HEIGHT)
                   \subseteq ItemIndices(virtualItems(
                       visibleRange(scrollTop, CHUNK_HEIGHT, containerHeight,
                                    overscan, editorChunks),
                       editorChunks, CHUNK_HEIGHT))

C31_Witness ==
    /\ scrollTop > 0
    /\ Cardinality(InViewport(editorChunks, scrollTop, containerHeight,
                              CHUNK_HEIGHT)) >= 2
    /\ ItemIndices(RenderedItems) # 0..(editorChunks - 1)
    /\ scrollTop % CHUNK_HEIGHT # 0

\* C10: no onContentChange call is made for a node that is not visible when
\* the call is made, the 10 ms callback of an Enter keydown included when
\* its node was unmounted in between.
C10_NoCallForInvisibleNode ==
    \A k \in 1..Len(editLog) : editLog[k].called => editLog[k].visible

C10_Witness ==
    /\ \E k \in 1..Len(editLog) :
           /\ editLog[k].kind = "enter"
           /\ ~editLog[k].visible
           /\ ~editLog[k].called
    /\ \E k \in 1..Len(editLog) :
           /\ editLog[k].kind = "input"
           /\ editLog[k].called

\* the content last forwarded for the chunkIndex of entry k before entry k
\* (0, the chunk's content as rendered, when nothing was forwarded)
LastKnown(k) ==
    LET earlier == { j \in 1..(k - 1) :
                       /\ editLog[j].called
                       /\ editLog[j].chunkIndex = editLog[k].chunkIndex }
    IN  IF earlier = {} THEN 0 ELSE editLog[SetMax(earlier)].content

\* C11: every onContentChange call caused by an event in the node that
\* renders chunks[i] carries chunkIndex i and no other index, whatever the
\* window of materialized items is.
C11_CallCarriesIndexOfItsChunk ==
    \A k \in 1..Len(editLog) :
        editLog[k].called =>
            /\ editLog[k].chunkIndex = editLog[k].chunk
            /\ editLog[k].chunkIndex = editLog[k].index

C11_Witness ==
    /\ scrollTop > 0
    /\ RenderedItems # <<>>
    /\ RenderedItems[1].index > 0
    /\ \E j, k \in 1..Len(editLog) :
           /\ j < k
           /\ editLog[j].called /\ editLog[k].called
           /\ editLog[j].kind = "input" /\ editLog[k].kind = "input"
           /\ editLog[j].chunkIndex = RenderedItems[1].index
           /\ editLog[k].chunkIndex = RenderedItems[Len(RenderedItems)].index

\* C12: an input event or a delayed Enter callback that finds the node's
\* text equal to the content last forwarded for its chunkIndex (or to the
\* chunk's content when nothing was forwarded) makes no onContentChange
\* call: the same content is never forwarded twice in a row for one chunk.
C12_Original ==
    \A k \in 1..Len(editLog) :
        editLog[k].called => editLog[k].content # LastKnown(k)

\* C16: a jump request for an in-range chunk k on the editor page leads to
\* chunk k being among the materialized virtual items, unless another jump
\* request has replaced it.
C16_Original ==
    \A k \in 0..(MaxEditorChunks - 1) :
        (scrollToTrigger = k) ~>
            (k \in ItemIndices(RenderedItems) \/ scrollToTrigger # k)

\* C20: the virtual item list the hook holds, after any history of scroll
\* positions, is the list computed from chunks, scrollTop, itemHeight,
\* containerHeight and overscan alone.
C20_ItemsDependOnInputsOnly ==
    RenderedItems = ItemsAt(editorChunks, scrollTop, containerHeight)

\* back at the top after the node of chunk 0 had been unmounted by a scroll
C20_Witness ==
    /\ scrollTop = 0
    /\ isScrolling
    /\ RenderedItems # <<>>
    /\ \E k \in 1..Len(enterTimers) :
           /\ enterTimers[k].index = 0
           /\ ~enterTimers[k].attached

(***************************************************************************)
(* Claims about handleScroll of useVirtualScroll (SpecFrames).             *)
(***************************************************************************)
\* C30: at most one frame callback and at most one scroll-end timeout are
\* pending, a pending frame callback carries the scrollTop of the latest
\* handleScroll call, and with no frame callback pending the scrollTop
\* state of the mounted hook is that of the latest call.
C30_OnePendingAndLatestWins ==
    /\ Len(frames) <= 1
    /\ Len(timeouts) <= 1
    /\ \A k \in 1..Len(frames) : frames[k].top = lastCall.top
    /\ (hookMounted /\ lastCall.top # -1 /\ frames = <<>>) =>
           appliedTop = lastCall.top

C30_Witness ==
    /\ hookMounted
    /\ lastCall.cancelled
    /\ lastFrame.ran
    /\ lastFrame.cleared
    /\ frames = <<>>
    /\ Len(timeouts) = 1
    /\ appliedTop = lastCall.top
    /\ appliedTop > 0

\* C36 as claimed: the progress handed to onScroll for a scroll event is the
\* progress of the scrollTop of that same event.
C36_Original ==
    lastProgress.eventTop # -1 =>
        lastProgress.progress = scrollProgress(lastProgress.eventTop)

\* C37: isScrolling is true from the moment a scroll is applied until 150 ms
\* have passed with no further scroll applied; once the user stops scrolling
\* it eventually is false in the mounted hook; and after the unmount no
\* callback is pending and nothing changes it.
C37_ScrollingFlagFollowsScrolls ==
    /\ []((lastFrame.ran /\ sinceApplied < ScrollEndDelay) => scrollingFlag)
    /\ [](~hookMounted => (frames = <<>> /\ timeouts = <<>>))
    /\ [][~hookMounted => scrollingFlag' = scrollingFlag]_vars
    /\ (<>[][~UserScrolls]_vars => <>[](hookMounted => ~scrollingFlag))

C37_Witness ==
    /\ hookMounted
    /\ lastFrame.ran
    /\ lastFrame.cleared
    /\ ~scrollingFlag
    /\ timeouts = <<>>
    /\ frames = <<>>
    /\ sinceApplied = ScrollEndDelay
    /\ appliedTop > 0

(***************************************************************************)
(* Claims about the sort-based intersection callback (SpecSortedCallback). *)
(***************************************************************************)
CloseInDistance(a, b) ==
    Abs(a.distanceFromTop - b.distanceFromTop) < Tolerance

\* C13: of two intersecting candidates whose distances from the container
\* top differ by less than the tolerance and whose ratios differ, the one
\* with the lower ratio is never selected, the one with the higher ratio is
\* selected when the two are the candidates of the batch, and a batch has
\* one possible selection only.
C13_HigherRatioOfClosePairSelected ==
    LET c == IntersectingPages(sortBatch)
    IN  sortPc = "handled" =>
          /\ \A i \in 1..Len(c) : \A j \in 1..Len(c) :
                (/\ CloseInDistance(c[i], c[j])
                 /\ c[i].intersectionRatio > c[j].intersectionRatio) =>
                    /\ sortCurrent # c[j].pageIndex
                    /\ Len(c) = 2 => sortCurrent = c[i].pageIndex
          /\ Cardinality(NewCurrentPages(sortBatch)) <= 1

C13_Witness ==
    LET c == IntersectingPages(sortBatch)
    IN  /\ sortPc = "handled"
        /\ Len(c) = 2
        /\ CloseInDistance(c[1], c[2])
        /\ c[1].distanceFromTop < c[2].distanceFromTop
        /\ c[1].intersectionRatio < c[2].intersectionRatio
        /\ sortCurrent = c[2].pageIndex

(***************************************************************************)
(* Claims about the observer effect of useVirtualization (SpecTracker and  *)
(* SpecPassiveScroll).                                                     *)
(***************************************************************************)
\* C14: a page whose entry is not intersecting or has a ratio below 0.1
\* never becomes the current page through the intersection callback.
C14_OnlyQualifyingPageIsSet ==
    (lastCallback.ran /\ lastCallback.selected # -1) =>
        lastCallback.selected \in lastCallback.qualifying

C14_Witness ==
    /\ lastCallback.ran
    /\ lastCallback.selected # -1
    /\ currentPage = lastCallback.selected
    /\ lastCallback.selected > 0
    /\ lastCallback.jumps = 0

\* C15: an intersection callback that updates the internal current page
\* makes no scrollToChunk call, with or without external page control.
C15_Original ==
    lastCallback.ran => lastCallback.jumps = 0

\* C18: once the cleanup of the observer effect has run, no page node is
\* observed, and no pending timer callback observes a node again, changes
\* currentPage or touches the container.
C18_Original ==
    [][ tornDown =>
            /\ observed' = {}
            /\ currentPage' = currentPage
            /\ scrollLog' = scrollLog
            /\ scrollBehavior' = scrollBehavior ]_vars

\* C25: the page a callback picks is, among the intersecting entries of
\* its batch with a ratio of at least 0.1, one whose top edge is nearest to
\* the top edge of the container.
C25_Original ==
    (lastCallback.ran /\ lastCallback.chosen # -1) =>
        lastCallback.chosen \in lastCallback.nearest

\* C26: after an intersection callback with a qualifying candidate the
\* current page is the page of the top-ranked candidate, whatever jumps
\* were made before it.
C26_Original ==
    (lastCallback.ran /\ lastCallback.chosen # -1) =>
        lastCallback.pageAfter = lastCallback.chosen

\* the page nodes in the document
AttachedPages == IF tornDown THEN {} ELSE MountedPages

\* C27: when no observePages timer is pending, the observed nodes are
\* exactly the mounted page nodes.
C27_Original ==
    ObserveCount(timers) = 0 => observed = AttachedPages

\* C28: the intersection callbacks that arrive without time passing
\* between them write the current page at most once.
C28_Original ==
    lastCallback.ran => lastCallback.burstWrites <= 1

\* C29: while there are chunks, the current page is an index of the chunk
\* array and the materialized window is not empty and holds the current
\* page, also after the chunk array was replaced by one of another length.
C29_Original ==
    totalPages >= 1 =>
        /\ currentPage \in 0..(totalPages - 1)
        /\ MountedPages # {}
        /\ currentPage \in MountedPages

(***************************************************************************)
(* Claims about MemStorage (SpecStorage).                                  *)
(***************************************************************************)
\* the stored chunks a range query is to return
Wanted ==
    { k \in 1..Len(documentChunks) :
        /\ documentChunks[k].documentId = rangeQuery.documentId
        /\ rangeQuery.startIndex <= documentChunks[k].chunkIndex
        /\ documentChunks[k].chunkIndex <= rangeQuery.endIndex }

\* C19: getDocumentChunkRange(documentId, s, e) returns exactly the stored
\* chunks of the document with s <= chunkIndex <= e, each once, in ascending
\* chunkIndex order, hence nothing when s is past the largest stored index
\* or past e, and never a chunk of another document.
C19_RangeIsExactAndAscending ==
    rangeQuery.asked =>
        /\ Len(rangeResult) = Cardinality(Wanted)
        /\ SeqRange(rangeResult) = { documentChunks[k] : k \in Wanted }
        /\ \A i, j \in 1..Len(rangeResult) :
               i < j => rangeResult[i].chunkIndex <= rangeResult[j].chunkIndex
        /\ \A k \in 1..Len(rangeResult) :
               rangeResult[k].documentId = rangeQuery.documentId
        /\ rangeQuery.startIndex > rangeQuery.endIndex => rangeResult = <<>>
        /\ (\A k \in 1..Len(documentChunks) :
                documentChunks[k].chunkIndex < rangeQuery.startIndex)
               => rangeResult = <<>>

C19_Witness ==
    /\ rangeQuery.asked
    /\ Len(rangeResult) = 2
    /\ rangeResult[1].chunkIndex = rangeQuery.startIndex
    /\ rangeResult[2].chunkIndex = rangeQuery.endIndex
    /\ rangeResult[1].chunkIndex < rangeResult[2].chunkIndex
    /\ Len(documentChunks) = 3
    /\ documentChunks[1] = rangeResult[2]
    /\ \E k \in 1..Len(documentChunks) :
           /\ documentChunks[k].documentId # rangeQuery.documentId
           /\ documentChunks[k].chunkIndex = rangeResult[1].chunkIndex

\* the stored chunks that do not name document d
ChunksOfOthers(stored, d) == SelectSeq(stored, LAMBDA c : c.documentId # d)

\* C34 as claimed: deleteDocument(id) leaves no stored chunk whose documentId
\* is id and leaves every chunk of every other document as it was.
C34_Original ==
    [][\A d \in DocIds :
          deleteDocument(d) =>
              /\ chunksToDelete(documentChunks', d) = <<>>
              /\ ChunksOfOthers(documentChunks', d)
                     = ChunksOfOthers(documentChunks, d)]_vars

(***************************************************************************)
(* Claims about the two chunkers of the demo document (SpecDemo).          *)
(***************************************************************************)
\* C33: for the same text and document id, the chunks the server's demo
\* search runs over and the client's demoChunks are the same sequence (id,
\* documentId, chunkIndex, content, wordCount, startWordIndex, endWordIndex),
\* and every chunkIndex the search returns is that of a client chunk whose
\* content holds the query.
C33_ServerAndClientChunksAgree ==
    (demoPc.server /\ demoPc.client) =>
        /\ serverChunks = demoChunks
        /\ \A k \in 1..Len(searchHits) :
               /\ searchHits[k] + 1 \in 1..Len(demoChunks)
               /\ demoChunks[searchHits[k] + 1].chunkIndex = searchHits[k]
               /\ ContentIncludes(demoChunks[searchHits[k] + 1].content,
                                  searchQuery)

C33_Witness ==
    /\ demoPc.server
    /\ demoPc.client
    /\ Len(demoChunks) = 2
    /\ demoChunks[1].wordCount > ServerMaxWordsPerPage
    /\ demoChunks[2].startWordIndex = demoChunks[1].wordCount
    /\ searchHits = <<1>>
    /\ searchQuery = "a"

(***************************************************************************)
(* Claims about the search worker (SpecWorker).                            *)
(***************************************************************************)
\* the words of the indexed chunk with index c
IndexedWords(c) == WordsOfContent(ContentOf(indexedChunks[c + 1]))

\* C35 as claimed: every result of a search names a word that exists at
\* wordIndex of the indexed chunk chunkIndex and includes the lower-cased
\* query, and every indexed pair (chunkIndex, wordIndex) is the decoding of
\* its encoded position, chunks of 10000 words or more included.
C35_Original ==
    /\ workerResults.type = "searchResults" =>
           /\ \A k \in 1..Len(workerResults.results) :
                  workerResults.results[k].chunkIndex
                      \in 0..(Len(indexedChunks) - 1)
           /\ \A c \in 0..(Len(indexedChunks) - 1) :
                  LET words == IndexedWords(c)
                  IN  \A k \in 1..Len(workerResults.results) :
                          LET r == workerResults.results[k]
                          IN  r.chunkIndex = c =>
                                 /\ r.wordIndex \in 0..(Len(words) - 1)
                                 /\ WordIncludes(words[r.wordIndex + 1],
                                        LowerWord(workerResults.query))
    /\ \A c \in 0..(Len(indexedChunks) - 1) :
           \A w \in 0..(Len(IndexedWords(c)) - 1) :
               DecodePosition(EncodePosition(c, w))
                   = [chunkIndex |-> c, wordIndex |-> w]

====
